---- MODULE Spec2Model ----
(***************************************************************************)
(* Call-processing pipeline of the conversational IVR:                     *)
(*   app/api/webhooks.py      inbound_call (call-start event)              *)
(*   app/core/orchestrator.py process_call and its helpers                 *)
(*   app/core/llm_client.py   generate_response, _rule_based_response      *)
(*   app/core/flow_engine.py  FlowEngine.run_flow                          *)
(*   app/core/asr_client.py, tts_client.py, media_bridge.py                *)
(*   app/state/session_store.py  Redis-or-memory session store             *)
(*   app/storage/*.py         database transcript and flow stores          *)
(*   app/api/flows.py, sessions.py   flow upsert, session read API         *)
(*                                                                         *)
(* Python dicts are functions whose domain is the set of keys present.     *)
(* Python None is the string None below for text-valued slots, NoMedia     *)
(* for the media reference and NoAgent for the escalation payload.         *)
(* Timestamps (datetime.utcnow().isoformat()) are readings of a clock      *)
(* that never runs backwards; two readings may be equal.                   *)
(***************************************************************************)
EXTENDS Integers, Sequences, FiniteSets, TLC

(* ------------------------------ bounds -------------------------------- *)
\* call-start events accepted in one behaviour
MaxCalls == 1
\* call-start events accepted in one behaviour of SpecRepeat
MaxRepeatCalls == 2
\* largest clock reading
MaxClock == 16
\* readings of the clock that equal the reading before them, in one behaviour
MaxStalls == 1
\* flow upserts in one behaviour
MaxUpserts == 1
\* transient store failures (a Redis or database call that raises) in one behaviour
MaxFaults == 1

\* longest node sequence of a flow handed to run_flow on its own
MaxNodes == 3

\* flow upserts in one behaviour of SpecFlows
MaxFlowUpserts == 3

CallIds == {"c1", "c2"}

(* ------------------------------ values -------------------------------- *)
None == "<None>"
NoMedia == <<>>
NoAgent == [none |-> TRUE]

WEBHOOK_SECRET == "changeme"
MEDIA_BASE_URL == "http://localhost:8000/media"

\* transcripts the orchestrator and the ASR client produce themselves
T_NoAsr == "stubbed transcript (no ASR client available)"
T_AsrFailed == "stubbed transcript: could not run ASR"
T_Canned == "stubbed transcript: hello I want my account balance"
\* transcripts a recognition backend may return
T_Agent == "I need an agent"
T_AgentBalance == "I need an agent for my balance"
T_Empty == ""

WhisperTexts == {T_Agent, T_AgentBalance, T_Empty}
\* every transcript of the model
Texts == {T_NoAsr, T_AsrFailed, T_Canned} \cup WhisperTexts

\* utterances handed to the Responder and to the fallback rules on their own
U_Balance == "balance"
U_Account == "my ACCOUNT"
U_Bill == "pay my bill"
U_Payment == "Payment due"
U_Agent == "agent"
U_Human == "a Human"
U_Representative == "representative"
U_Hello == "Hello"
U_Hi == "hi"
U_AccountAgent == "account agent"
U_BillAgent == "bill for agent"
U_HelloAgent == "hello agent"
U_This == "this"
U_What == "what"
U_Blank == "  "
U_AgentPadded == " agent "
Utterances ==
  {U_Balance, U_Account, U_Bill, U_Payment, U_Agent, U_Human, U_Representative, U_Hello,
   U_Hi, U_AccountAgent, U_BillAgent, U_HelloAgent, U_This, U_What, U_Blank, U_AgentPadded}

\* the characters of each text of the model, for substring search
Chars(s) ==
  CASE s = "stubbed transcript (no ASR client available)" ->
      <<"s", "t", "u", "b", "b", "e", "d", " ", "t", "r", "a", "n", "s", "c", "r", "i", "p", "t", " ", "(", "n", "o", " ", "A", "S", "R", " ", "c", "l", "i", "e", "n", "t", " ", "a", "v", "a", "i", "l", "a", "b", "l", "e", ")">>
    [] s = "stubbed transcript: could not run ASR" ->
      <<"s", "t", "u", "b", "b", "e", "d", " ", "t", "r", "a", "n", "s", "c", "r", "i", "p", "t", ":", " ", "c", "o", "u", "l", "d", " ", "n", "o", "t", " ", "r", "u", "n", " ", "A", "S", "R">>
    [] s = "stubbed transcript: hello I want my account balance" ->
      <<"s", "t", "u", "b", "b", "e", "d", " ", "t", "r", "a", "n", "s", "c", "r", "i", "p", "t", ":", " ", "h", "e", "l", "l", "o", " ", "I", " ", "w", "a", "n", "t", " ", "m", "y", " ", "a", "c", "c", "o", "u", "n", "t", " ", "b", "a", "l", "a", "n", "c", "e">>
    [] s = "I need an agent" ->
      <<"I", " ", "n", "e", "e", "d", " ", "a", "n", " ", "a", "g", "e", "n", "t">>
    [] s = "I need an agent for my balance" ->
      <<"I", " ", "n", "e", "e", "d", " ", "a", "n", " ", "a", "g", "e", "n", "t", " ", "f", "o", "r", " ", "m", "y", " ", "b", "a", "l", "a", "n", "c", "e">>
    [] s = "balance" ->
      <<"b", "a", "l", "a", "n", "c", "e">>
    [] s = "my ACCOUNT" ->
      <<"m", "y", " ", "A", "C", "C", "O", "U", "N", "T">>
    [] s = "pay my bill" ->
      <<"p", "a", "y", " ", "m", "y", " ", "b", "i", "l", "l">>
    [] s = "Payment due" ->
      <<"P", "a", "y", "m", "e", "n", "t", " ", "d", "u", "e">>
    [] s = "agent" ->
      <<"a", "g", "e", "n", "t">>
    [] s = "a Human" ->
      <<"a", " ", "H", "u", "m", "a", "n">>
    [] s = "representative" ->
      <<"r", "e", "p", "r", "e", "s", "e", "n", "t", "a", "t", "i", "v", "e">>
    [] s = "Hello" ->
      <<"H", "e", "l", "l", "o">>
    [] s = "hi" ->
      <<"h", "i">>
    [] s = "account agent" ->
      <<"a", "c", "c", "o", "u", "n", "t", " ", "a", "g", "e", "n", "t">>
    [] s = "bill for agent" ->
      <<"b", "i", "l", "l", " ", "f", "o", "r", " ", "a", "g", "e", "n", "t">>
    [] s = "hello agent" ->
      <<"h", "e", "l", "l", "o", " ", "a", "g", "e", "n", "t">>
    [] s = "this" ->
      <<"t", "h", "i", "s">>
    [] s = "what" ->
      <<"w", "h", "a", "t">>
    [] s = "  " ->
      <<" ", " ">>
    [] s = " agent " ->
      <<" ", "a", "g", "e", "n", "t", " ">>
    [] s = "" ->
      <<>>

Upper == <<"A", "B", "C", "D", "E", "F", "G", "H", "I", "J", "K", "L", "M", "N", "O", "P", "Q", "R", "S", "T", "U", "V", "W", "X", "Y", "Z">>
Lower == <<"a", "b", "c", "d", "e", "f", "g", "h", "i", "j", "k", "l", "m", "n", "o", "p", "q", "r", "s", "t", "u", "v", "w", "x", "y", "z">>

\* str.lower() on one character
LowerMap ==
  [ch \in {Upper[i] : i \in 1..26} |-> Lower[CHOOSE i \in 1..26 : Upper[i] = ch]]
LowerChar(ch) == IF ch \in DOMAIN LowerMap THEN LowerMap[ch] ELSE ch

\* str.lower()
lower(cs) == [i \in 1..Len(cs) |-> LowerChar(cs[i])]

\* str.strip(): leading and trailing blanks removed
strip(cs) ==
  LET Inked == {i \in 1..Len(cs) : cs[i] # " "}
  IN IF Inked = {} THEN <<>>
     ELSE LET lo == CHOOSE i \in Inked : \A j \in Inked : i <= j
              hi == CHOOSE i \in Inked : \A j \in Inked : j <= i
          IN SubSeq(cs, lo, hi)

\* Python's `needle in hay` on strings
Contains(hay, needle) ==
  {i \in 1..(Len(hay) - Len(needle) + 1) :
     SubSeq(hay, i, i + Len(needle) - 1) = needle} # {}

Kw_balance == <<"b", "a", "l", "a", "n", "c", "e">>
Kw_account == <<"a", "c", "c", "o", "u", "n", "t">>
Kw_payment == <<"p", "a", "y", "m", "e", "n", "t">>
Kw_bill == <<"b", "i", "l", "l">>
Kw_agent == <<"a", "g", "e", "n", "t">>
Kw_human == <<"h", "u", "m", "a", "n">>
Kw_representative == <<"r", "e", "p", "r", "e", "s", "e", "n", "t", "a", "t", "i", "v", "e">>
Kw_hello == <<"h", "e", "l", "l", "o">>
Kw_hi == <<"h", "i">>

\* Python truthiness of an optional string
Truthy(s) == s # None /\ s # ""

(* ------------------------------ dicts --------------------------------- *)
EmptyDict == [k \in {} |-> None]
Has(d, k) == k \in DOMAIN d
\* dict.get(k, default)
Get(d, k, default) == IF k \in DOMAIN d THEN d[k] ELSE default
\* d[k] = v
Put(d, k, v) == [x \in (DOMAIN d) \cup {k} |-> IF x = k THEN v ELSE d[x]]
\* dict.update(patch): shallow merge, the patch's keys win
Update(d, patch) ==
  [x \in (DOMAIN d) \cup (DOMAIN patch) |-> IF x \in DOMAIN patch THEN patch[x] ELSE d[x]]

(* ------------------- keyword rules and the Responder ------------------ *)
\* a rule table that looks for agent, human and representative first
rule_based_response_agent_first(cs) ==
  LET t == lower(cs) IN
  IF Contains(t, Kw_agent) \/ Contains(t, Kw_human) \/ Contains(t, Kw_representative)
  THEN [intent |-> "connect_agent", reply |-> "Connecting you to an agent.", escalate |-> TRUE]
  ELSE IF Contains(t, Kw_balance) \/ Contains(t, Kw_account)
  THEN [intent |-> "account_balance", reply |-> "Your account balance is (rupee)3,420."]
  ELSE IF Contains(t, Kw_payment) \/ Contains(t, Kw_bill)
  THEN [intent |-> "payments",
        reply |-> "You can make payments via the web portal. Would you like a link?"]
  ELSE IF Contains(t, Kw_hello) \/ Contains(t, Kw_hi)
  THEN [intent |-> "greeting", reply |-> "Hello! How can I help you today?"]
  ELSE [intent |-> "unknown", reply |-> "Sorry, I didn't understand that. Could you repeat?"]

\* llm_client._rule_based_response: ordered, first match wins, on text.lower()
rule_based_response(cs) ==
  LET t == lower(cs) IN
  IF Contains(t, Kw_balance) \/ Contains(t, Kw_account)
  THEN [intent |-> "account_balance", reply |-> "Your account balance is (rupee)3,420."]
  ELSE IF Contains(t, Kw_payment) \/ Contains(t, Kw_bill)
  THEN [intent |-> "payments",
        reply |-> "You can make payments via the web portal. Would you like a link?"]
  ELSE IF Contains(t, Kw_agent) \/ Contains(t, Kw_human) \/ Contains(t, Kw_representative)
  THEN [intent |-> "connect_agent", reply |-> "Connecting you to an agent.", escalate |-> TRUE]
  ELSE IF Contains(t, Kw_hello) \/ Contains(t, Kw_hi)
  THEN [intent |-> "greeting", reply |-> "Hello! How can I help you today?"]
  ELSE [intent |-> "unknown", reply |-> "Sorry, I didn't understand that. Could you repeat?"]

\* what the OpenAI backend call of generate_response can come back with:
\* a parsed {intent, reply} answer, or a failure (which the client catches)
OpenAiFailed == [failed |-> TRUE]
\* run_in_executor itself raising (caught at lines 46-48)
OpenAiRaised == [raised |-> TRUE]
OpenAiAnswers ==
  { [intent |-> "account_balance", reply |-> "Let me look up your balance."],
    [intent |-> "unknown", reply |-> ""] }

\* generate_response without the try of lines 42-48: what the executor raises
\* reaches the caller
generate_response_unguarded(text, backend) ==
  LET cs == strip(Chars(text)) IN
  IF cs = <<>>
  THEN [intent |-> "none", reply |-> "I didn't hear anything."]
  ELSE IF backend = OpenAiFailed
  THEN rule_based_response(cs)
  ELSE backend

\* LLMClient.generate_response; `backend` is OpenAiFailed when the mode is not
\* openai, the package is missing or the call failed inside
\* _blocking_openai_chat, OpenAiRaised when the executor call raised
generate_response(text, backend) ==
  LET cs == strip(Chars(text)) IN
  IF cs = <<>>
  THEN [intent |-> "none", reply |-> "I didn't hear anything."]
  ELSE IF backend = OpenAiFailed \/ backend = OpenAiRaised
  THEN rule_based_response(cs)
  ELSE backend

\* LLMClient.generate_response, the calls it makes to the OpenAI backend
\* (lines 38-46): none for a blank text or outside openai mode
generate_response_backend_calls(text, mode) ==
  IF strip(Chars(text)) = <<>> THEN 0
  ELSE IF mode = "openai" THEN 1 ELSE 0

\* generate_response on every transcript and backend outcome, worked out once
generate_responses ==
  [text \in Texts |->
     [backend \in OpenAiAnswers \cup {OpenAiFailed} |-> generate_response(text, backend)]]

\* the branch of lines 163-170 answering from the LLM client's rule table instead
fallback_rules_from_table(asr_text) == rule_based_response(Chars(asr_text))

\* process_call, the branch taken when no LLM client exists (lines 163-170)
fallback_rules(asr_text) ==
  LET text == lower(Chars(asr_text)) IN
  IF Contains(text, Kw_balance)
  THEN [intent |-> "account_balance", reply |-> "Your balance is $42 (fallback)."]
  ELSE IF Contains(text, Kw_agent) \/ Contains(text, Kw_human)
          \/ Contains(text, Kw_representative)
  THEN [intent |-> "connect_agent", reply |-> "Connecting you to an agent.", escalate |-> TRUE]
  ELSE [intent |-> "unknown", reply |-> "I didn't get that. Can you repeat?"]

\* the same branch on every transcript, worked out once
fallback_answers == [asr_text \in Texts |-> fallback_rules(asr_text)]

(* ----------------------------- flow engine ---------------------------- *)
\* bool(x) for a node's optional escalate flag ("True", "False" or None)
Bool(x) == x = "True"

MinOf(S) == CHOOSE i \in S : \A j \in S : i <= j

\* FlowEngine.run_flow, the nodes its first loop can return (lines 34-37)
matching_nodes(nodes, intent) ==
  IF Truthy(intent)
  THEN {i \in 1..Len(nodes) : Truthy(nodes[i].intent) /\ nodes[i].intent = intent}
  ELSE {}

\* a resolver in which the last node with the intent wins
run_flow_last_match(flow, intent) ==
  LET nodes == Get(flow, "nodes", <<>>)
      matching == matching_nodes(nodes, intent)
      last == CHOOSE i \in matching : \A j \in matching : j <= i
      starting == {i \in 1..Len(nodes) :
                     nodes[i].id = "start" /\ nodes[i].type \in {"ask", "say"}}
  IN IF matching # {}
     THEN [reply |-> nodes[last].reply, escalate |-> Bool(nodes[last].escalate)]
     ELSE IF starting # {}
     THEN [reply |-> nodes[MinOf(starting)].text, escalate |-> FALSE]
     ELSE [reply |-> None, escalate |-> FALSE]

\* a resolver that takes the node it answered with out of the flow
run_flow_consumes(flow, intent) ==
  LET nodes == Get(flow, "nodes", <<>>)
      matching == matching_nodes(nodes, intent)
  IN IF matching = {} THEN flow
     ELSE [flow EXCEPT !.nodes = SubSeq(nodes, 1, MinOf(matching) - 1)
                                   \o SubSeq(nodes, MinOf(matching) + 1, Len(nodes))]

\* FlowEngine.run_flow, the flow object it leaves behind: no statement of
\* lines 30-43 assigns to flow, to its nodes list or to a node
run_flow_leaves(flow, intent) == flow

\* FlowEngine.run_flow
run_flow(flow, intent) ==
  LET nodes == Get(flow, "nodes", <<>>)
      matching == matching_nodes(nodes, intent)
      starting == {i \in 1..Len(nodes) :
                     nodes[i].id = "start" /\ nodes[i].type \in {"ask", "say"}}
  IN IF matching # {}
     THEN [reply |-> nodes[MinOf(matching)].reply,
           escalate |-> Bool(nodes[MinOf(matching)].escalate)]
     ELSE IF starting # {}
     THEN [reply |-> nodes[MinOf(starting)].text, escalate |-> FALSE]
     ELSE [reply |-> None, escalate |-> FALSE]

\* flows.FlowNode: every key is present, optional ones default to None / False
Node(id, type, text, intent, reply, escalate) ==
  [id |-> id, type |-> type, text |-> text, intent |-> intent, reply |-> reply,
   escalate |-> escalate]

\* json.dumps / json.loads of a node list: an array of objects, each a list of
\* key-value pairs; None is null, the escalate flag is true or false, every
\* other value is a string
JsonKeys == <<"id", "type", "text", "intent", "reply", "escalate">>
json_value(key, v) ==
  IF v = None THEN <<"null">>
  ELSE IF key = "escalate" THEN (IF v = "True" THEN <<"true">> ELSE <<"false">>)
  ELSE <<"string", v>>
python_value(jv) ==
  IF jv = <<"null">> THEN None
  ELSE IF jv = <<"true">> THEN "True"
  ELSE IF jv = <<"false">> THEN "False"
  ELSE jv[2]
json_dumps(nodes) ==
  [i \in 1..Len(nodes) |->
     [k \in 1..Len(JsonKeys) |-> <<JsonKeys[k], json_value(JsonKeys[k], nodes[i][JsonKeys[k]])>>]]
json_loads(nodes_json) ==
  [i \in 1..Len(nodes_json) |->
     [key \in {JsonKeys[k] : k \in 1..Len(JsonKeys)} |->
        python_value(nodes_json[i][CHOOSE k \in 1..Len(nodes_json[i]) :
                                     nodes_json[i][k][1] = key][2])]]

\* flows_store.save_flow, the row it writes (lines 29-37, 44-50)
flow_row(flow_obj) ==
  [flow_id |-> flow_obj.flow_id, name |-> flow_obj.name,
   description |-> flow_obj.description, nodes_json |-> json_dumps(flow_obj.nodes),
   updated_at |-> flow_obj.updated_at]

\* flows_store.list_flows and get_flow, the dict made of a row
row_flow(row) ==
  [flow_id |-> row.flow_id, name |-> row.name, description |-> row.description,
   nodes |-> json_loads(row.nodes_json), updated_at |-> row.updated_at]

\* flows a client may upsert (flows.Flow without the timestamp)
FlowInputs ==
  { [flow_id |-> "faq-v1", name |-> None, description |-> None,
     nodes |-> << Node("start", "ask", "How can I help?", None, None, "False"),
                  Node("account", "action", None, "account_balance",
                       "Your balance is $42", "False"),
                  Node("account2", "action", None, "account_balance",
                       "Please hold.", "True"),
                  Node("support", "action", None, "connect_agent",
                       "Connecting to agent", "True") >>],
    [flow_id |-> "quiet", name |-> None, description |-> None,
     nodes |-> << Node("mute", "action", None, "unknown", None, "False"),
                  Node("bye", "action", None, "goodbye", "Goodbye", None) >>] }

(* ------------------------------- state -------------------------------- *)
VARIABLES
  cfg,                 \* the process's singletons: adapters, Redis client
  clock,               \* last reading of datetime.utcnow()
  redis_sessions,      \* Redis keys session:<call_id>
  redis_transcripts,   \* Redis lists transcripts:<call_id>
  INMEM_SESSIONS,      \* session_store._INMEM_SESSIONS
  INMEM_TRANSCRIPTS,   \* session_store._INMEM_TRANSCRIPTS
  db_transcripts,      \* rows of the transcripts table, in insertion order
  db_flows,            \* rows of the flows table, by flow_id
  FLOW_STORE,          \* api.flows._FLOW_STORE, in insertion order
  tasks,               \* the background tasks running process_call
  latest,              \* call_id -> store that took its most recent session write
  budget,              \* call-starts, upserts and transient failures still to come
  call                 \* one adapter call made on its own: function, arguments, results

vars == << cfg, clock, redis_sessions, redis_transcripts, INMEM_SESSIONS,
           INMEM_TRANSCRIPTS, db_transcripts, db_flows, FLOW_STORE, tasks,
           latest, budget, call >>

stores == << redis_sessions, redis_transcripts, INMEM_SESSIONS, INMEM_TRANSCRIPTS,
             db_transcripts, latest >>
flow_stores == << db_flows, FLOW_STORE >>

\* the adapters and clients that exist in a process
Configs ==
  [ asr : {"none", "stub", "local"},
    llm : {"none", "rules", "openai"},
    flow_engine : BOOLEAN,
    tts : {"none", "stub", "local"},
    media_bridge : BOOLEAN,
    redis_client : BOOLEAN,
    db : {"up", "down"} ]

\* no adapter call is being made on its own
Idle == [fn |-> "none"]

NoStoresButCall ==
  /\ clock = 0
  /\ redis_sessions = EmptyDict
  /\ redis_transcripts = EmptyDict
  /\ INMEM_SESSIONS = EmptyDict
  /\ INMEM_TRANSCRIPTS = EmptyDict
  /\ db_transcripts = <<>>
  /\ db_flows = EmptyDict
  /\ FLOW_STORE = <<>>
  /\ tasks = <<>>
  /\ latest = EmptyDict

NoStores == NoStoresButCall /\ call = Idle

Init ==
  /\ cfg \in Configs
  /\ NoStores
  /\ budget = [calls |-> MaxCalls, upserts |-> MaxUpserts, faults |-> MaxFaults,
               stalls |-> 0]

\* a store call may raise once for every transient failure still to come, and
\* the clock may repeat a reading once for every stall still to come
Spend(faults, stalls) ==
  budget' = [budget EXCEPT !.faults = @ - faults, !.stalls = @ - stalls]
Failed(ok) == IF ok THEN 0 ELSE 1

\* datetime.utcnow() after the reading t: a later instant, or the same one
\* when the clock stalls
Readings(t) ==
  {IF t < MaxClock THEN t + 1 ELSE t} \cup (IF budget.stalls > 0 THEN {t} ELSE {})
Stalled(t, u) == IF u = t /\ t < MaxClock THEN 1 ELSE 0

(* ---------------------------- session store ---------------------------- *)
\* session_store.set_session: Redis if the client exists and the SET succeeds,
\* otherwise the in-memory dict
set_session(R, M, call_id, session, set_ok) ==
  IF cfg.redis_client /\ set_ok
  THEN [redis |-> Put(R, call_id, session), mem |-> M, home |-> "redis"]
  ELSE [redis |-> R, mem |-> Put(M, call_id, session), home |-> "mem"]

NoSession == [absent |-> TRUE]

\* session_store.get_session
get_session(R, M, call_id, get_ok) ==
  IF cfg.redis_client /\ get_ok
  THEN Get(R, call_id, NoSession)
  ELSE Get(M, call_id, NoSession)

\* session_store.update_session: read (Redis, else memory), dict.update, write.
\* A session read from _INMEM_SESSIONS is the stored object itself, so the
\* update shows there whichever store takes the write.
update_session(R, M, call_id, patch, get_ok, set_ok) ==
  LET fromRedis == cfg.redis_client /\ get_ok
      session == IF fromRedis THEN Get(R, call_id, EmptyDict)
                 ELSE Get(M, call_id, EmptyDict)
      merged == Update(session, patch)
      M1 == IF ~fromRedis /\ Has(M, call_id) THEN Put(M, call_id, merged) ELSE M
  IN IF cfg.redis_client /\ set_ok
     THEN [redis |-> Put(R, call_id, merged), mem |-> M1, home |-> "redis"]
     ELSE [redis |-> R, mem |-> Put(M1, call_id, merged), home |-> "mem"]

\* session_store.append_transcript, the session part: append the entry to the
\* session's embedded transcripts (creating the session if absent) and save it
append_to_session(R, M, call_id, entry, get_ok, set_ok) ==
  LET fromRedis == cfg.redis_client /\ get_ok
      found == get_session(R, M, call_id, get_ok)
      session == IF found = NoSession
                 THEN [call_id |-> call_id, transcripts |-> <<entry>>]
                 ELSE Put(found, "transcripts",
                          Append(Get(found, "transcripts", <<>>), entry))
      M1 == IF ~fromRedis /\ found # NoSession THEN Put(M, call_id, session) ELSE M
  IN set_session(R, M1, call_id, session, set_ok)

(* ------------------------------ call start ----------------------------- *)
MediaUrls == {None, "file://demo/recordings/inbound.wav"}
SecretHeaders == {None, WEBHOOK_SECRET, "wrong"}

\* a secret check that lets every request through
secret_ignored(x_webhook_secret) == FALSE

\* webhooks.inbound_call, the shared-secret check (lines 50-53)
secret_rejected(x_webhook_secret) ==
  Truthy(WEBHOOK_SECRET) /\ x_webhook_secret # None
    /\ x_webhook_secret # WEBHOOK_SECRET

\* the first call of a behaviour is c1; a later one repeats an id or brings a new one
NewCallIds == IF tasks = <<>> THEN {"c1"} ELSE CallIds

NoFlow == [absent |-> TRUE]

\* the locals of a process_call task that the handler awaited up to its first
\* transcript entry
NewTask_awaited(call_id, media_url) ==
  [ call_id |-> call_id, media_url |-> media_url, pc |-> "save_asr",
    asr_text |-> "", llm_result |-> EmptyDict, intent |-> None,
    reply_text |-> None, flow |-> NoFlow, flow_error |-> {},
    bridge_calls |-> 0, escalate |-> FALSE, media_out |-> NoMedia,
    agent_payload |-> NoAgent, saved |-> <<>>, invoked |-> <<>>,
    result_summary |-> EmptyDict ]

\* the locals of one process_call task
NewTask(call_id, media_url) ==
  [ call_id |-> call_id, media_url |-> media_url, pc |-> "transcribe",
    asr_text |-> "", llm_result |-> EmptyDict, intent |-> None,
    reply_text |-> None, flow |-> NoFlow, flow_error |-> {},
    bridge_calls |-> 0, escalate |-> FALSE, media_out |-> NoMedia,
    agent_payload |-> NoAgent, saved |-> <<>>, invoked |-> <<>>,
    result_summary |-> EmptyDict ]

\* webhooks.inbound_call: check the secret, store the session with status
\* received, schedule process_call
inbound_call(call_id, media_url, x_webhook_secret, set_ok) ==
  /\ budget.calls > 0
  /\ IF secret_rejected(x_webhook_secret)
     THEN /\ budget' = [budget EXCEPT !.calls = @ - 1]
          /\ UNCHANGED << cfg, clock, call, redis_sessions, redis_transcripts,
                          INMEM_SESSIONS, INMEM_TRANSCRIPTS, db_transcripts,
                          db_flows, FLOW_STORE, tasks, latest >>
     ELSE \E t1 \in Readings(clock) : \E t2 \in Readings(t1) :
            /\ Stalled(clock, t1) + Stalled(t1, t2) <= budget.stalls
            /\ LET session == [ call_id |-> call_id, from |-> "+15550001", to |-> None,
                                status |-> "received", created_at |-> t1,
                                last_update |-> t2, transcripts |-> <<>>,
                                last_intent |-> None ]
                   w == set_session(redis_sessions, INMEM_SESSIONS, call_id, session, set_ok)
               IN /\ redis_sessions' = w.redis
                  /\ INMEM_SESSIONS' = w.mem
                  /\ latest' = Put(latest, call_id, w.home)
            /\ clock' = t2
            /\ tasks' = Append(tasks, NewTask(call_id, media_url))
            /\ budget' = [budget EXCEPT !.calls = @ - 1, !.faults = @ - Failed(set_ok),
                                        !.stalls = @ - (Stalled(clock, t1) + Stalled(t1, t2))]
            /\ UNCHANGED << cfg, call, redis_transcripts, INMEM_TRANSCRIPTS, db_transcripts,
                            db_flows, FLOW_STORE >>

(* --------------------------- transcript stores ------------------------- *)
\* what transcripts_store.save_transcript can do: insert and read back the row,
\* fail before the row is inserted, or fail reading it back. A database that
\* never connected fails every insert.
DbOutcomes ==
  IF cfg.db = "down" THEN {"insert_failed"}
  ELSE {"ok"} \cup (IF budget.faults > 0 THEN {"insert_failed", "readback_failed"} ELSE {})
DbFailed(db) == IF cfg.db = "up" /\ db # "ok" THEN 1 ELSE 0

\* what a Redis call can do: succeed (TRUE) or raise (FALSE); without a client
\* no call is made
RedisOutcomes == IF cfg.redis_client /\ budget.faults > 0 THEN BOOLEAN ELSE {TRUE}

\* transcripts_store.save_transcript, the inserted row
transcript_row(entry) ==
  [ id |-> Len(db_transcripts) + 1, call_id |-> entry.call_id,
    timestamp |-> entry.timestamp, text |-> entry.text, source |-> entry.source,
    created_at |-> entry.created_at ]

\* a _save_transcript_entry that stores nothing
save_transcript_entry_dropped(r, text, source, next_pc) ==
  /\ tasks' = [tasks EXCEPT ![r].pc = next_pc]
  /\ UNCHANGED << cfg, call, clock, stores, flow_stores, budget >>

\* orchestrator._save_transcript_entry: the database first, on any error
\* session_store.append_transcript (Redis list or memory list, then the session)
save_transcript_entry(r, text, source, next_pc) ==
  \E t1 \in Readings(clock), db \in DbOutcomes,
     push_ok \in RedisOutcomes, get_ok \in RedisOutcomes, set_ok \in RedisOutcomes :
   \E t2 \in Readings(t1) :
    LET call_id == tasks[r].call_id
        entry == [ call_id |-> call_id, timestamp |-> t1, text |-> text,
                   source |-> source, created_at |-> t2 ]
        in_db == db # "insert_failed"
        in_fallback == db # "ok"
        in_redis == in_fallback /\ cfg.redis_client /\ push_ok
        in_mem == in_fallback /\ ~in_redis
        w == append_to_session(redis_sessions, INMEM_SESSIONS, call_id, entry,
                               get_ok, set_ok)
        places == (IF in_db THEN {"db"} ELSE {}) \cup (IF in_redis THEN {"redis"} ELSE {})
                    \cup (IF in_mem THEN {"mem"} ELSE {})
        faults == DbFailed(db) + Failed(push_ok) + Failed(get_ok) + Failed(set_ok)
        stalls == Stalled(clock, t1) + Stalled(t1, t2)
    IN /\ stalls <= budget.stalls
       \* the text column is NOT NULL
       /\ (text = None => db = "insert_failed")
       \* no Redis call is made when the database took the entry
       /\ (db = "ok" => push_ok /\ get_ok /\ set_ok)
       /\ faults <= budget.faults
       /\ Spend(faults, stalls)
       /\ clock' = t2
       /\ db_transcripts' = IF in_db THEN Append(db_transcripts, transcript_row(entry))
                            ELSE db_transcripts
       /\ redis_transcripts' =
            IF in_redis
            THEN Put(redis_transcripts, call_id,
                     Append(Get(redis_transcripts, call_id, <<>>), entry))
            ELSE redis_transcripts
       /\ INMEM_TRANSCRIPTS' =
            IF in_mem
            THEN Put(INMEM_TRANSCRIPTS, call_id,
                     Append(Get(INMEM_TRANSCRIPTS, call_id, <<>>), entry))
            ELSE INMEM_TRANSCRIPTS
       /\ redis_sessions' = IF in_fallback THEN w.redis ELSE redis_sessions
       /\ INMEM_SESSIONS' = IF in_fallback THEN w.mem ELSE INMEM_SESSIONS
       /\ latest' = IF in_fallback THEN Put(latest, call_id, w.home) ELSE latest
       /\ tasks' = [tasks EXCEPT ![r].pc = next_pc,
                                 ![r].saved = Append(@, [ source |-> source, timestamp |-> t1,
                                                          text |-> text, places |-> places ])]
       /\ UNCHANGED << cfg, call, db_flows, FLOW_STORE >>

(* ------------------------------ the stages ----------------------------- *)
Raise == "<raise>"

\* what the recognition backend of a local-mode ASR client can do
AsrBackends == WhisperTexts \cup {Raise}

\* ASRClient.transcribe: the canned transcript in stub mode or without media,
\* else the backend's text (or its error)
transcribe(media_url, backend) ==
  IF cfg.asr = "stub" \/ ~Truthy(media_url) THEN T_Canned ELSE backend

\* ASRClient.transcribe, the calls it makes to a recognition backend or to the
\* file system (lines 46-48 return before any)
transcribe_backend_calls(media_url) ==
  IF cfg.asr = "stub" \/ ~Truthy(media_url) THEN 0 ELSE 1

\* what the paths after line 48 can come back with, by mode: in local mode
\* the executor call of line 58 (a text of _blocking_whisper_transcribe, or
\* the executor's own error); in cloud mode the strings of lines 61-76
AsrOutcomes ==
  IF cfg.asr = "cloud"
  THEN {T_Agent, "stubbed transcript (no cloud key)", "stubbed transcript (cloud asr failed)"}
  ELSE AsrBackends \cup {"stubbed transcript (whisper failed)"}

\* step 1 without its try/except: an ASR error ends the run
stage_transcribe_unguarded(task, backend) ==
  IF cfg.asr = "none"
  THEN [task EXCEPT !.asr_text = T_NoAsr, !.pc = "save_asr"]
  ELSE IF transcribe(task.media_url, backend) = Raise
  THEN [task EXCEPT !.pc = "raised"]
  ELSE [task EXCEPT !.asr_text = transcribe(task.media_url, backend), !.pc = "save_asr"]

\* step 1 trying the ASR client again after an error
stage_transcribe_retry(task, backend) ==
  IF cfg.asr = "none"
  THEN [task EXCEPT !.asr_text = T_NoAsr, !.pc = "save_asr"]
  ELSE IF transcribe(task.media_url, backend) = Raise
  THEN [task EXCEPT !.asr_text = T_AsrFailed]
  ELSE [task EXCEPT !.asr_text = transcribe(task.media_url, backend), !.pc = "save_asr"]

\* process_call step 1 (lines 141-150)
stage_transcribe(task, backend) ==
  IF cfg.asr = "none"
  THEN [task EXCEPT !.asr_text = T_NoAsr, !.pc = "save_asr"]
  ELSE IF transcribe(task.media_url, backend) = Raise
  THEN [task EXCEPT !.asr_text = T_AsrFailed, !.pc = "save_asr"]
  ELSE [task EXCEPT !.asr_text = transcribe(task.media_url, backend), !.pc = "save_asr"]

\* what the OpenAI call can do in this process
LlmBackends == IF cfg.llm = "openai" THEN OpenAiAnswers \cup {OpenAiFailed} ELSE {OpenAiFailed}

\* step 2 without the rules of lines 163-170: no LLM client, no reply
stage_respond_no_rules(task, backend) ==
  LET llm_result == IF cfg.llm = "none" THEN EmptyDict
                    ELSE generate_responses[task.asr_text][backend]
  IN [task EXCEPT !.llm_result = llm_result,
                  !.intent = Get(llm_result, "intent", None),
                  !.reply_text = Get(llm_result, "reply", ""),
                  !.pc = "save_llm"]

\* process_call, the answer taken when generate_response raises (lines 159-161)
LlmErrorAnswer ==
  [intent |-> "unknown", reply |-> "Sorry, I couldn't process that right now."]

\* step 2 going on without an answer when generate_response raises
stage_respond_no_fallback(task, backend) ==
  LET llm_result == IF cfg.llm = "none" THEN fallback_answers[task.asr_text]
                    ELSE IF cfg.llm = "raising" THEN EmptyDict
                    ELSE generate_responses[task.asr_text][backend]
  IN [task EXCEPT !.llm_result = llm_result,
                  !.intent = Get(llm_result, "intent", None),
                  !.reply_text = Get(llm_result, "reply", ""),
                  !.pc = "save_llm"]

\* process_call step 2 (lines 154-173); an LLM client in mode "raising" is one
\* whose generate_response raises
stage_respond(task, backend) ==
  LET llm_result == IF cfg.llm = "none" THEN fallback_answers[task.asr_text]
                    ELSE IF cfg.llm = "raising" THEN LlmErrorAnswer
                    ELSE generate_responses[task.asr_text][backend]
  IN [task EXCEPT !.llm_result = llm_result,
                  !.intent = Get(llm_result, "intent", None),
                  !.reply_text = Get(llm_result, "reply", ""),
                  !.pc = "save_llm"]

\* flows_store.list_flows()[0]: a row with the greatest updated_at
first_listed ==
  { row_flow(db_flows[i]) : i \in { j \in DOMAIN db_flows :
                            \A k \in DOMAIN db_flows :
                              db_flows[k].updated_at <= db_flows[j].updated_at } }

\* orchestrator._maybe_get_flow_for_call: the first listed flow; the in-memory
\* store is consulted only when listing raised
maybe_get_flow_for_call(list_ok) ==
  IF list_ok
  THEN IF first_listed = {} THEN {NoFlow} ELSE first_listed
  ELSE IF FLOW_STORE # <<>> THEN {FLOW_STORE[1]} ELSE {NoFlow}

\* step 3 escalating when the Responder or the flow says so
stage_flow_either(task, flow) ==
  LET escalate == Get(task.llm_result, "escalate", FALSE)
  IN IF cfg.flow_engine /\ flow # NoFlow
     THEN LET fe_result == run_flow(flow, task.intent)
          IN [task EXCEPT !.flow = flow,
                          !.reply_text = Get(fe_result, "reply", task.reply_text),
                          !.escalate = escalate \/ Get(fe_result, "escalate", escalate),
                          !.pc = "synthesize"]
     ELSE [task EXCEPT !.escalate = escalate, !.pc = "synthesize"]

\* step 3 taking only the escalation decision from the flow
stage_flow_keeps_reply(task, flow) ==
  LET escalate == Get(task.llm_result, "escalate", FALSE)
  IN IF cfg.flow_engine /\ flow # NoFlow
     THEN [task EXCEPT !.flow = flow,
                       !.escalate = Get(run_flow(flow, task.intent), "escalate", escalate),
                       !.pc = "synthesize"]
     ELSE [task EXCEPT !.escalate = escalate, !.pc = "synthesize"]

\* process_call step 3 (lines 178-189)
stage_flow(task, flow) ==
  LET escalate == Get(task.llm_result, "escalate", FALSE)
  IN IF cfg.flow_engine /\ flow # NoFlow
     THEN LET fe_result == run_flow(flow, task.intent)
          IN [task EXCEPT !.flow = flow,
                          !.reply_text = Get(fe_result, "reply", task.reply_text),
                          !.escalate = Get(fe_result, "escalate", escalate),
                          !.pc = "synthesize"]
     ELSE [task EXCEPT !.escalate = escalate, !.pc = "synthesize"]

\* step 3 when run_flow raises after its reply was already taken over
stage_flow_failed_partial(task, flow) ==
  [task EXCEPT !.flow = flow,
               !.reply_text = run_flow(flow, task.intent).reply,
               !.escalate = Get(task.llm_result, "escalate", FALSE),
               !.pc = "synthesize"]

\* process_call step 3 when run_flow raises (lines 178-183, 188-189): the
\* flow was looked up, neither reply_text nor escalate is reassigned
stage_flow_failed(task, flow) ==
  [task EXCEPT !.flow = flow,
               !.escalate = Get(task.llm_result, "escalate", FALSE),
               !.pc = "synthesize"]

\* what the speech backend of a local-mode TTS client can do
TtsBackends == {"saved", "failed", Raise}

\* str.rstrip('/') on the configured base
rstrip_slash(url) ==
  CASE url = "http://localhost:8000/media/" -> "http://localhost:8000/media"
    [] OTHER -> url

\* a synthesize that produces audio in stub mode too
synthesize_in_stub(text, call_id, backend) ==
  IF ~Truthy(text) THEN NoMedia
  ELSE IF backend = "saved" THEN <<call_id, "_reply.wav">>
  ELSE IF backend = "failed" THEN NoMedia
  ELSE <<Raise>>

\* TTSClient.synthesize: the artifact's file name, None or an error
synthesize(text, call_id, backend) ==
  IF ~Truthy(text) THEN NoMedia
  ELSE IF cfg.tts = "stub" THEN NoMedia
  ELSE IF backend = "saved" THEN <<call_id, "_reply.wav">>
  ELSE IF backend = "failed" THEN NoMedia
  ELSE <<Raise>>

\* process_call step 4 (lines 191-208)
stage_synthesize(task, backend) ==
  IF cfg.tts = "none"
  THEN [task EXCEPT !.media_out = NoMedia, !.pc = "escalate"]
  ELSE LET media_path == synthesize(task.reply_text, task.call_id, backend)
       IN IF media_path = <<Raise>> \/ media_path = NoMedia
          THEN [task EXCEPT !.media_out = NoMedia, !.pc = "escalate"]
          ELSE [task EXCEPT !.media_out = <<rstrip_slash(MEDIA_BASE_URL), "/">> \o media_path,
                            !.pc = "escalate"]

\* media_bridge.escalate_to_agent
escalate_to_agent(call_id) ==
  [ webrtc_url |-> <<"/agent?call_id=", call_id>>,
    note |-> "placeholder (implement real WebRTC bridge)" ]

\* step 5 asking for an agent whatever the flag says
stage_escalate_always(task) ==
  IF cfg.media_bridge
  THEN [task EXCEPT !.agent_payload = escalate_to_agent(task.call_id), !.pc = "finalize"]
  ELSE [task EXCEPT !.agent_payload = [note |-> "escalation_requested_but_no_bridge"],
                    !.pc = "finalize"]

\* process_call step 5, the calls of escalate_to_agent it makes (lines 212-216)
escalate_bridge_calls(task) == IF task.escalate /\ cfg.media_bridge THEN 1 ELSE 0

\* step 5 never asking for an agent
stage_escalate_skipped(task) == [task EXCEPT !.agent_payload = NoAgent, !.pc = "finalize"]

\* step 5 followed by the return, without the session patch
stage_escalate_returns(task) ==
  IF task.escalate
  THEN IF cfg.media_bridge
       THEN [task EXCEPT !.agent_payload = escalate_to_agent(task.call_id), !.pc = "done"]
       ELSE [task EXCEPT !.agent_payload = [note |-> "escalation_requested_but_no_bridge"],
                         !.pc = "done"]
  ELSE [task EXCEPT !.agent_payload = NoAgent, !.pc = "done"]

\* process_call step 5 (lines 210-219)
stage_escalate(task) ==
  IF task.escalate
  THEN IF cfg.media_bridge
       THEN [task EXCEPT !.agent_payload = escalate_to_agent(task.call_id), !.pc = "finalize"]
       ELSE [task EXCEPT !.agent_payload = [note |-> "escalation_requested_but_no_bridge"],
                         !.pc = "finalize"]
  ELSE [task EXCEPT !.agent_payload = NoAgent, !.pc = "finalize"]

\* a patch that leaves the status of a run without escalation as it was
final_status_unset(escalate) == IF ~escalate THEN "received" ELSE "escalated"

\* the status process_call writes (line 225)
final_status(escalate) == IF ~escalate THEN "completed" ELSE "escalated"

\* the patch of process_call step 6 (lines 224-231)
session_patch(task, now) ==
  [ status |-> final_status(task.escalate), last_intent |-> task.intent,
    last_reply |-> task.reply_text, media_out |-> task.media_out,
    agent |-> task.agent_payload, last_update |-> now ]

\* a summary made of the Responder's answer instead of the run's final values
summary_of_responder(task) ==
  [ call_id |-> task.call_id, intent |-> task.intent,
    reply |-> Get(task.llm_result, "reply", ""),
    media_out |-> task.media_out,
    escalated |-> Get(task.llm_result, "escalate", FALSE),
    agent |-> task.agent_payload ]

\* result_summary (lines 234-241)
summary(task) ==
  [ call_id |-> task.call_id, intent |-> task.intent, reply |-> task.reply_text,
    media_out |-> task.media_out, escalated |-> task.escalate,
    agent |-> task.agent_payload ]

(* ------------------------------- actions ------------------------------- *)
At(r, pc) == r \in 1..Len(tasks) /\ tasks[r].pc = pc

\* the adapter calls a step of process_call makes, kept with the task: the
\* adapter, and whether the call returned (TRUE) or raised (FALSE)
Invoked(task, adapter, made, ok) ==
  IF made THEN Append(task.invoked, [adapter |-> adapter, ok |-> ok]) ELSE task.invoked

Transcribe(r) ==
  /\ At(r, "transcribe")
  /\ \E backend \in AsrBackends :
       tasks' = [tasks EXCEPT ![r] =
                  [stage_transcribe(tasks[r], backend) EXCEPT
                     !.invoked = Invoked(tasks[r], "asr", cfg.asr # "none",
                                         transcribe(tasks[r].media_url, backend) # Raise)]]
  /\ UNCHANGED << cfg, call, clock, stores, flow_stores, budget >>

SaveAsr(r) ==
  /\ At(r, "save_asr")
  /\ save_transcript_entry(r, tasks[r].asr_text, "asr", "respond")

Respond(r) ==
  /\ At(r, "respond")
  /\ \E backend \in LlmBackends :
       tasks' = [tasks EXCEPT ![r] =
                  [stage_respond(tasks[r], backend) EXCEPT
                     !.invoked = Invoked(tasks[r], "llm", cfg.llm # "none",
                                         cfg.llm # "raising")]]
  /\ UNCHANGED << cfg, call, clock, stores, flow_stores, budget >>

SaveLlm(r) ==
  /\ At(r, "save_llm")
  /\ save_transcript_entry(r, tasks[r].reply_text, "llm", "flow")

\* what flows_store.list_flows can do: return the rows (TRUE) or raise (FALSE)
ListOutcomes ==
  IF cfg.db = "down" THEN {FALSE}
  ELSE IF budget.faults > 0 THEN BOOLEAN ELSE {TRUE}

\* what FlowEngine.run_flow can do on a flow that was found: return (TRUE) or
\* raise (FALSE); spent is the fault the lookup already took
ResolveOutcomes(flow, spent) ==
  IF flow # NoFlow /\ budget.faults > spent THEN BOOLEAN ELSE {TRUE}

\* the errors the flow step met, kept with the task for the record
flow_errors(list_ok, fe_ok) ==
  (IF list_ok THEN {} ELSE {"lookup"}) \cup (IF fe_ok THEN {} ELSE {"resolve"})

Flow(r) ==
  /\ At(r, "flow")
  /\ IF cfg.flow_engine
     THEN \E list_ok \in ListOutcomes :
            LET spent == IF cfg.db = "up" THEN Failed(list_ok) ELSE 0
            IN \E flow \in maybe_get_flow_for_call(list_ok) :
                 \E fe_ok \in ResolveOutcomes(flow, spent) :
                   /\ tasks' = [tasks EXCEPT ![r] =
                        [ (IF fe_ok THEN stage_flow(tasks[r], flow)
                                    ELSE stage_flow_failed(tasks[r], flow))
                          EXCEPT !.flow_error = flow_errors(list_ok, fe_ok),
                                 !.invoked = Invoked(tasks[r], "flow", flow # NoFlow, fe_ok) ] ]
                   /\ Spend(spent + Failed(fe_ok), 0)
     ELSE /\ tasks' = [tasks EXCEPT ![r] = stage_flow(tasks[r], NoFlow)]
          /\ UNCHANGED budget
  /\ UNCHANGED << cfg, call, clock, stores, flow_stores >>

Synthesize(r) ==
  /\ At(r, "synthesize")
  /\ \E backend \in TtsBackends :
       tasks' = [tasks EXCEPT ![r] =
                  [stage_synthesize(tasks[r], backend) EXCEPT
                     !.invoked =
                       Invoked(tasks[r], "tts", cfg.tts # "none",
                               synthesize(tasks[r].reply_text, tasks[r].call_id, backend)
                                 # <<Raise>>)]]
  /\ UNCHANGED << cfg, call, clock, stores, flow_stores, budget >>

Escalate(r) ==
  /\ At(r, "escalate")
  /\ tasks' = [tasks EXCEPT ![r] = [stage_escalate(tasks[r]) EXCEPT
                                      !.bridge_calls = escalate_bridge_calls(tasks[r]),
                                      !.invoked =
                                        Invoked(tasks[r], "bridge", tasks[r].escalate,
                                                cfg.media_bridge)]]
  /\ UNCHANGED << cfg, call, clock, stores, flow_stores, budget >>

\* a step 6 that patches the session of the first call, whichever call the
\* run is for
Finalize_first_call(r) ==
  /\ At(r, "finalize")
  /\ \E now \in Readings(clock), get_ok \in RedisOutcomes, set_ok \in RedisOutcomes :
       LET call_id == tasks[1].call_id
           w == update_session(redis_sessions, INMEM_SESSIONS, call_id,
                               session_patch(tasks[r], now), get_ok, set_ok)
       IN /\ clock' = now
          /\ redis_sessions' = w.redis
          /\ INMEM_SESSIONS' = w.mem
          /\ latest' = Put(latest, call_id, w.home)
          /\ tasks' = [tasks EXCEPT ![r].result_summary = summary(tasks[r]),
                                    ![r].pc = "done"]
          /\ Failed(get_ok) + Failed(set_ok) <= budget.faults
          /\ Spend(Failed(get_ok) + Failed(set_ok), Stalled(clock, now))
  /\ UNCHANGED << cfg, call, redis_transcripts, INMEM_TRANSCRIPTS, db_transcripts, flow_stores >>

\* process_call step 6 and the return: orchestrator._update_session with the
\* patch, then the summary
Finalize(r) ==
  /\ At(r, "finalize")
  /\ \E now \in Readings(clock), get_ok \in RedisOutcomes, set_ok \in RedisOutcomes :
       LET call_id == tasks[r].call_id
           w == update_session(redis_sessions, INMEM_SESSIONS, call_id,
                               session_patch(tasks[r], now), get_ok, set_ok)
       IN /\ clock' = now
          /\ redis_sessions' = w.redis
          /\ INMEM_SESSIONS' = w.mem
          /\ latest' = Put(latest, call_id, w.home)
          /\ tasks' = [tasks EXCEPT ![r].result_summary = summary(tasks[r]),
                                    ![r].pc = "done"]
          /\ Failed(get_ok) + Failed(set_ok) <= budget.faults
          /\ Spend(Failed(get_ok) + Failed(set_ok), Stalled(clock, now))
  /\ UNCHANGED << cfg, call, redis_transcripts, INMEM_TRANSCRIPTS, db_transcripts, flow_stores >>

\* what flows_store.save_flow can do: store the row, fail before writing it, or
\* fail after writing it (reading the row back)
SaveFlowOutcomes ==
  IF cfg.db = "down" THEN {"failed_before"}
  ELSE {"ok"} \cup (IF budget.faults > 0 THEN {"failed_before", "failed_after"} ELSE {})

\* _FLOW_STORE[flow_id] = flow_obj on an insertion-ordered dict
flow_store_put(store, flow_obj) ==
  IF \E i \in 1..Len(store) : store[i].flow_id = flow_obj.flow_id
  THEN [i \in 1..Len(store) |->
          IF store[i].flow_id = flow_obj.flow_id THEN flow_obj ELSE store[i]]
  ELSE Append(store, flow_obj)

\* flows.upsert_flow: stamp the flow, save it in the database, on any error in
\* the in-memory store
upsert_flow(flow, outcome) ==
  /\ budget.upserts > 0
  /\ \E now \in Readings(clock) :
       LET flow_obj == [ flow_id |-> flow.flow_id, name |-> flow.name,
                         description |-> flow.description, nodes |-> flow.nodes,
                         updated_at |-> now ]
       IN /\ clock' = now
          /\ budget' = [budget EXCEPT !.upserts = @ - 1,
                                      !.faults = @ - DbFailed(outcome),
                                      !.stalls = @ - Stalled(clock, now)]
          /\ db_flows' = IF outcome # "failed_before"
                         THEN Put(db_flows, flow.flow_id, flow_row(flow_obj)) ELSE db_flows
          /\ FLOW_STORE' = IF outcome # "ok"
                           THEN flow_store_put(FLOW_STORE, flow_obj) ELSE FLOW_STORE
  /\ UNCHANGED << cfg, call, stores, tasks >>

\* the next step of the process_call task r
Step(r) ==
  \/ Transcribe(r)
  \/ SaveAsr(r)
  \/ Respond(r)
  \/ SaveLlm(r)
  \/ Flow(r)
  \/ Synthesize(r)
  \/ Escalate(r)
  \/ Finalize(r)

Next ==
  \/ \E call_id \in NewCallIds, media_url \in MediaUrls, secret \in SecretHeaders,
        set_ok \in RedisOutcomes :
       inbound_call(call_id, media_url, secret, set_ok)
  \/ \E flow \in FlowInputs, outcome \in SaveFlowOutcomes : upsert_flow(flow, outcome)
  \/ \E r \in 1..Len(tasks) : Step(r)

Spec == Init /\ [][Next]_vars

\* one deployment: stub ASR, the rule-based LLM client, the flow engine, no TTS,
\* no media bridge, a database that is up; with or without a Redis client
RepeatConfigs ==
  { c \in Configs : /\ c.asr = "stub" /\ c.llm = "rules" /\ c.flow_engine
                    /\ c.tts = "none" /\ ~c.media_bridge /\ c.db = "up" }

\* repeated call-starts, stores that do not fail
InitRepeat ==
  /\ cfg \in RepeatConfigs
  /\ NoStores
  /\ budget = [calls |-> MaxRepeatCalls, upserts |-> MaxUpserts, faults |-> 0,
               stalls |-> 0]

\* one call-start on a clock that may repeat a reading
InitClock ==
  /\ cfg \in { c \in Configs : c.tts = "none" /\ ~c.media_bridge /\ c.llm # "openai" }
  /\ NoStores
  /\ budget = [calls |-> MaxCalls, upserts |-> MaxUpserts, faults |-> MaxFaults,
               stalls |-> MaxStalls]

SpecRepeat == InitRepeat /\ [][Next]_vars

SpecClock == InitClock /\ [][Next]_vars

\* one call-start in the deployment above, stores that may fail once; the event
\* loop runs every scheduled task, and every adapter or store call returns
InitFault ==
  /\ cfg \in RepeatConfigs
  /\ NoStores
  /\ budget = [calls |-> MaxCalls, upserts |-> MaxUpserts, faults |-> MaxFaults,
               stalls |-> 0]

SpecFair == InitFault /\ [][Next]_vars /\ \A r \in 1..MaxCalls : WF_vars(Step(r))

\* the deployments with an LLM client whose generate_response raises
RaisingConfigs == { [c EXCEPT !.llm = "raising"] : c \in Configs }

InitRaising ==
  /\ cfg \in RaisingConfigs
  /\ NoStores
  /\ budget = [calls |-> MaxCalls, upserts |-> MaxUpserts, faults |-> MaxFaults,
               stalls |-> 0]

SpecRaising == InitRaising /\ [][Next]_vars

(* --------------------------- flow management --------------------------- *)
\* what flows_store.get_flow can do: return the row or nothing (TRUE), or
\* raise (FALSE)
GetOutcomes ==
  IF cfg.db = "down" THEN {FALSE}
  ELSE IF budget.faults > 0 THEN BOOLEAN ELSE {TRUE}

\* flows.get_flow: the flow of the flows table, of the in-memory store when the
\* table cannot be read; NoFlow stands for the 404 answer
get_flow(flow_id, get_ok) ==
  IF get_ok
  THEN IF Has(db_flows, flow_id) THEN row_flow(db_flows[flow_id]) ELSE NoFlow
  ELSE IF \E i \in 1..Len(FLOW_STORE) : FLOW_STORE[i].flow_id = flow_id
       THEN FLOW_STORE[CHOOSE i \in 1..Len(FLOW_STORE) : FLOW_STORE[i].flow_id = flow_id]
       ELSE NoFlow

\* the flows of FlowInputs and a later version of faq-v1 with fewer nodes, in
\* another order
FlowVersions ==
  FlowInputs \cup
  { [flow_id |-> "faq-v1", name |-> "FAQ", description |-> None,
     nodes |-> << Node("support", "action", None, "connect_agent",
                       "Connecting to agent", "True"),
                  Node("start", "say", "Hello", None, None, None) >>] }

\* a process that only serves the flow management API
InitFlows ==
  /\ cfg \in { c \in Configs : /\ c.asr = "stub" /\ c.llm = "rules" /\ c.flow_engine
                                /\ c.tts = "none" /\ ~c.media_bridge /\ ~c.redis_client }
  /\ NoStores
  /\ budget = [calls |-> 0, upserts |-> MaxFlowUpserts, faults |-> MaxFaults,
               stalls |-> 0]

NextFlows ==
  \/ \E flow \in FlowVersions, outcome \in SaveFlowOutcomes : upsert_flow(flow, outcome)

SpecFlows == InitFlows /\ [][NextFlows]_vars

(* ------------------- adapter calls made on their own ------------------- *)
\* nodes of the flows handed to run_flow
NodeInputs ==
  { Node("start", "ask", "How can I help?", None, None, "False"),
    Node("start", "say", "Welcome", None, None, "False"),
    Node("start", "action", "Not a prompt", None, None, "False"),
    Node("account", "action", None, "account_balance", "Your balance is $42", "False"),
    Node("account2", "action", None, "account_balance", "Please hold.", "True"),
    Node("support", "action", None, "connect_agent", None, None),
    Node("blank", "action", None, "", "Blank", "True") }

\* node sequences of at most n nodes
RECURSIVE NodeSeqs(_)
NodeSeqs(n) ==
  IF n = 0 THEN {<<>>}
  ELSE LET shorter == NodeSeqs(n - 1)
       IN shorter \cup {Append(ns, nd) : ns \in shorter, nd \in NodeInputs}

\* intents handed to run_flow: absent, empty, and three labels
IntentInputs == {None, "", "account_balance", "connect_agent", "unknown"}

\* calls of FlowEngine.run_flow(flow, intent) still to be made
RunFlowCalls ==
  { [fn |-> "run_flow",
     flow |-> [flow_id |-> "f", name |-> None, description |-> None, nodes |-> ns],
     given |-> ns, intent |-> intent, results |-> <<>>] :
    ns \in NodeSeqs(MaxNodes), intent \in IntentInputs }

\* run_flow is called, up to twice, on the same flow object
RunFlow ==
  /\ call.fn = "run_flow"
  /\ Len(call.results) < 2
  /\ call' = [call EXCEPT !.results = Append(@, run_flow(call.flow, call.intent)),
                          !.flow = run_flow_leaves(call.flow, call.intent)]
  /\ UNCHANGED << cfg, clock, stores, flow_stores, tasks, budget >>

\* calls of llm_client._rule_based_response(text) still to be made
RuleCalls ==
  { [fn |-> "rule_based_response", text |-> text, results |-> <<>>] :
    text \in Utterances \cup Texts }

RuleBasedResponse ==
  /\ call.fn = "rule_based_response"
  /\ call.results = <<>>
  /\ call' = [call EXCEPT !.results = << rule_based_response(Chars(call.text)) >>]
  /\ UNCHANGED << cfg, clock, stores, flow_stores, tasks, budget >>

\* runs of the orchestrator's own rules (process_call lines 162-170) on a
\* transcript, still to be made
FallbackCalls ==
  { [fn |-> "fallback_rules", text |-> text, results |-> <<>>] :
    text \in Utterances \cup Texts }

FallbackRules ==
  /\ call.fn = "fallback_rules"
  /\ call.results = <<>>
  /\ call' = [call EXCEPT !.results = << fallback_rules(call.text) >>]
  /\ UNCHANGED << cfg, clock, stores, flow_stores, tasks, budget >>

\* calls of LLMClient.generate_response(text) still to be made, on a client in
\* rules mode or in openai mode
NotReturned == [pending |-> TRUE]
GenerateCalls ==
  { [fn |-> "generate_response", text |-> text, mode |-> mode, backend |-> NotReturned,
     backend_calls |-> 0, results |-> <<>>] :
    text \in Utterances \cup Texts, mode \in {"rules", "openai"} }

GenerateResponse ==
  /\ call.fn = "generate_response"
  /\ call.results = <<>>
  /\ \E backend \in (IF call.mode = "openai"
                      THEN OpenAiAnswers \cup {OpenAiFailed, OpenAiRaised}
                      ELSE {OpenAiFailed}) :
       call' = [call EXCEPT !.results = << generate_response(call.text, backend) >>,
                            !.backend = backend,
                            !.backend_calls =
                               generate_response_backend_calls(call.text, call.mode)]
  /\ UNCHANGED << cfg, clock, stores, flow_stores, tasks, budget >>

\* calls of ASRClient.transcribe(media_url) still to be made
TranscribeCalls ==
  { [fn |-> "transcribe", media_url |-> media_url, backend_calls |-> 0, results |-> <<>>] :
    media_url \in MediaUrls \cup {""} }

TranscribeCall ==
  /\ call.fn = "transcribe"
  /\ call.results = <<>>
  /\ \E backend \in AsrOutcomes :
       call' = [call EXCEPT !.results = << transcribe(call.media_url, backend) >>,
                            !.backend_calls = transcribe_backend_calls(call.media_url)]
  /\ UNCHANGED << cfg, clock, stores, flow_stores, tasks, budget >>

\* the clients under call: an ASR client in stub, local or cloud mode
CallConfigs ==
  { [c EXCEPT !.asr = mode] : c \in RepeatConfigs, mode \in {"stub", "local", "cloud"} }

InitCalls ==
  /\ cfg \in CallConfigs
  /\ NoStoresButCall
  /\ budget = [calls |-> 0, upserts |-> 0, faults |-> 0, stalls |-> 0]
  /\ call \in RunFlowCalls \cup RuleCalls \cup FallbackCalls \cup GenerateCalls
              \cup TranscribeCalls

NextCalls ==
  \/ RunFlow
  \/ RuleBasedResponse
  \/ FallbackRules
  \/ GenerateResponse
  \/ TranscribeCall

SpecCalls == InitCalls /\ [][NextCalls]_vars

(* ------------------------------ properties ----------------------------- *)
Runs == 1..Len(tasks)
Done(r) == tasks[r].pc = "done"
\* the call of run r was started once: no other run works on its session
Sole(r) == \A q \in Runs : q # r => tasks[q].call_id # tasks[r].call_id
\* run r has returned and is the only run of its call
Finished(r) == Done(r) /\ Sole(r)
AfterFlow == {"synthesize", "escalate", "finalize", "done"}

\* the session record of call c: the one in the store that took the latest
\* write for c
Record(c) == IF latest[c] = "redis" THEN redis_sessions[c] ELSE INMEM_SESSIONS[c]
Status(c) == IF Has(latest, c) THEN Get(Record(c), "status", None) ELSE None
LastReply(c) == IF Has(latest, c) THEN Get(Record(c), "last_reply", None) ELSE None
Agent(c) == IF Has(latest, c) THEN Get(Record(c), "agent", NoAgent) ELSE NoAgent

\* the statuses process_call leaves behind (line 225)
Terminal == {"completed", "escalated"}

\* no Transcriber, Responder, Flow Resolver, Synthesizer or Escalation Bridge
AllAbsent ==
  /\ cfg.asr = "none" /\ cfg.llm = "none" /\ ~cfg.flow_engine
  /\ cfg.tts = "none" /\ ~cfg.media_bridge

\* run r found a flow and run_flow returned its result
Resolved(r) == tasks[r].flow # NoFlow /\ "resolve" \notin tasks[r].flow_error

C2_TerminalIsFinal ==
  [][ \A c \in CallIds :
        Status(c) \in {"answered", "completed", "escalated"} => Status(c)' = Status(c) ]_vars

\* C3: whatever the adapters and the stores do, a run never ends in an error:
\* it always has a next step until it has returned, and it returns the summary
\* of a finished call.
C3_NeverRaises ==
  \A r \in Runs :
    /\ tasks[r].pc \in {"transcribe", "save_asr", "respond", "save_llm", "flow",
                        "synthesize", "escalate", "finalize", "done"}
    /\ ~Done(r) => ENABLED Step(r)
    /\ Done(r) => /\ tasks[r].result_summary = summary(tasks[r])
                  /\ tasks[r].result_summary.call_id = tasks[r].call_id
                  /\ tasks[r].result_summary.escalated \in BOOLEAN

\* a run that returned although the recognition backend raised and a store failed
C3_Witness ==
  \E r \in Runs : /\ Done(r) /\ tasks[r].asr_text = T_AsrFailed
                  /\ (cfg.db = "down" \/ budget.faults = 0)

\* what GET /sessions/{call_id} reads when Redis answers
Visible(c) == get_session(redis_sessions, INMEM_SESSIONS, c, TRUE)

\* C4: every accepted call-start leads to a state where the session read API
\* returns a record of that call with a terminal status.
C4_EventuallyVisible ==
  \A c \in CallIds :
    (\E r \in Runs : tasks[r].call_id = c)
      ~> (Get(Visible(c), "status", None) \in {"answered", "completed", "escalated"})

\* the entry e of call c is in the transcripts table, the Redis list or the
\* in-memory list
Stored(c, e) ==
  LET Same(x) == /\ x.call_id = c /\ x.timestamp = e.timestamp
                 /\ x.text = e.text /\ x.source = e.source
      In(list) == \E i \in 1..Len(list) : Same(list[i])
  IN \/ In(db_transcripts)
     \/ In(Get(redis_transcripts, c, <<>>))
     \/ In(Get(INMEM_TRANSCRIPTS, c, <<>>))

\* C5: when a run comes to its flow step it has stored two transcript entries
\* for its call, the recognised text tagged asr and then the reply tagged llm,
\* the second not earlier than the first; no flow has been consulted before that.
C5_TwoEntriesBeforeFlow ==
  \A r \in Runs :
    LET saved == tasks[r].saved IN
    /\ tasks[r].pc \in {"flow"} \cup AfterFlow =>
         /\ Len(saved) >= 2
         /\ saved[1].source = "asr" /\ saved[1].text = tasks[r].asr_text
         /\ saved[2].source = "llm"
         /\ saved[2].text = Get(tasks[r].llm_result, "reply", "")
         /\ saved[1].timestamp <= saved[2].timestamp
         /\ \A i \in 1..2 : Stored(tasks[r].call_id, saved[i])
    /\ tasks[r].pc \notin AfterFlow => tasks[r].flow = NoFlow

\* a run at its flow step whose two entries went to different stores
C5_Witness ==
  \E r \in Runs : /\ tasks[r].pc = "flow"
                  /\ Len(tasks[r].saved) = 2
                  /\ tasks[r].saved[1].timestamp < tasks[r].saved[2].timestamp
                  /\ tasks[r].saved[1].places # tasks[r].saved[2].places

KeywordFallback == cfg.llm \in {"none", "rules"}
Says(r, kw) == Contains(lower(Chars(tasks[r].asr_text)), kw)
SaysINeedAnAgent(r) == Contains(Chars(tasks[r].asr_text), Chars(T_Agent))

\* C8, as stated: a transcript containing "I need an agent" under the keyword
\* fallback gives intent connect_agent with escalate true, status escalated and
\* an escalation payload in the session record.
C8_AsStated ==
  \A r \in Runs :
    Finished(r) /\ KeywordFallback /\ SaysINeedAnAgent(r) =>
      /\ tasks[r].intent = "connect_agent"
      /\ Get(tasks[r].llm_result, "escalate", FALSE)
      /\ Status(tasks[r].call_id) = "escalated"
      /\ Agent(tasks[r].call_id) # NoAgent

\* C8, amended: a transcript containing "I need an agent" and none of the
\* keywords ranked before agent (balance, account, payment, bill) gives intent
\* connect_agent with escalate true under the keyword fallback; the status is
\* escalated and an escalation payload is in the session record when no flow
\* was consulted, and the consulted flow's decision stands otherwise.
C8_AgentEscalates ==
  \A r \in Runs :
    ( /\ Finished(r) /\ KeywordFallback /\ SaysINeedAnAgent(r)
      /\ ~Says(r, Kw_balance) /\ ~Says(r, Kw_account)
      /\ ~Says(r, Kw_payment) /\ ~Says(r, Kw_bill) ) =>
      /\ tasks[r].intent = "connect_agent"
      /\ Get(tasks[r].llm_result, "escalate", FALSE)
      /\ ~Resolved(r) =>
           /\ Status(tasks[r].call_id) = "escalated"
           /\ Agent(tasks[r].call_id) # NoAgent
      /\ Resolved(r) =>
           /\ tasks[r].escalate = run_flow(tasks[r].flow, tasks[r].intent).escalate
           /\ (Status(tasks[r].call_id) = "escalated") <=> tasks[r].escalate

C8_Witness ==
  \E r \in Runs : /\ Finished(r) /\ KeywordFallback /\ tasks[r].asr_text = T_Agent
                  /\ ~Resolved(r)
                  /\ Status(tasks[r].call_id) = "escalated"
                  /\ Agent(tasks[r].call_id) # NoAgent

\* the flows held by the flows table and by the in-memory flow store
StoredFlows ==
  {row_flow(db_flows[k]) : k \in DOMAIN db_flows} \cup {FLOW_STORE[i] : i \in 1..Len(FLOW_STORE)}

C10_EmptyReplyIsNoOverride ==
  \A r \in Runs :
    ( /\ tasks[r].pc \in AfterFlow
      /\ Resolved(r)
      /\ ~Truthy(run_flow(tasks[r].flow, tasks[r].intent).reply) ) =>
      /\ tasks[r].reply_text = Get(tasks[r].llm_result, "reply", "")
      /\ Finished(r) => LastReply(tasks[r].call_id) = Get(tasks[r].llm_result, "reply", "")

\* the escalation flag the Responder stage produced
ResponderEscalate(r) == Get(tasks[r].llm_result, "escalate", FALSE)
\* the decision of the flow consulted by run r
FlowEscalate(r) == run_flow(tasks[r].flow, tasks[r].intent).escalate

Unchanged(r) ==
  /\ tasks[r].reply_text = Get(tasks[r].llm_result, "reply", "")
  /\ tasks[r].escalate = ResponderEscalate(r)

Returned == call.fn = "run_flow" /\ Len(call.results) > 0

C15_FullReplaceIdempotent ==
  [][ \A flow \in FlowVersions, outcome \in {"ok", "failed_before", "failed_after"} :
        upsert_flow(flow, outcome) =>
            LET got == get_flow(flow.flow_id, cfg.db = "up")'
            IN /\ got # NoFlow
               /\ got.nodes = flow.nodes
               /\ LET had == get_flow(flow.flow_id, cfg.db = "up")
                    IN (had # NoFlow /\ had.nodes = flow.nodes /\ had.name = flow.name
                        /\ had.description = flow.description) =>
                         got = [had EXCEPT !.updated_at = got.updated_at] ]_vars

\* C16: the rule table answers with the first row, in the order balance or
\* account, payment or bill, agent or human or representative, hello or hi,
\* that has a keyword occurring in the lower-cased text, and with unknown when
\* none has; only the agent row escalates.
C16_OrderedRuleTable ==
  (call.fn = "rule_based_response" /\ call.results # <<>>) =>
    LET t == lower(Chars(call.text))
        res == call.results[1]
        escalates == Get(res, "escalate", FALSE)
        row1 == Contains(t, Kw_balance) \/ Contains(t, Kw_account)
        row2 == Contains(t, Kw_payment) \/ Contains(t, Kw_bill)
        row3 == Contains(t, Kw_agent) \/ Contains(t, Kw_human)
                  \/ Contains(t, Kw_representative)
        row4 == Contains(t, Kw_hello) \/ Contains(t, Kw_hi)
    IN /\ row1 => (res.intent = "account_balance" /\ ~escalates)
       /\ (~row1 /\ row2) => (res.intent = "payments" /\ ~escalates)
       /\ (~row1 /\ ~row2 /\ row3) => (res.intent = "connect_agent" /\ escalates)
       /\ (~row1 /\ ~row2 /\ ~row3 /\ row4) => (res.intent = "greeting" /\ ~escalates)
       /\ (~row1 /\ ~row2 /\ ~row3 /\ ~row4) => (res.intent = "unknown" /\ ~escalates)
       /\ (call.text = U_Account) => res.intent = "account_balance"
       /\ (call.text = U_Human) => res.intent = "connect_agent"

\* the rule table has answered a text that has both account and agent
C16_Witness ==
  /\ call.fn = "rule_based_response" /\ call.results # <<>>
  /\ call.text = U_AccountAgent
  /\ call.results[1].intent = "account_balance"
  /\ ~Has(call.results[1], "escalate")

\* C17: on every transcript the orchestrator's own rules give the intent, the
\* reply and the escalation flag that the LLM client's rule table gives.
C17_SameAsRuleTable ==
  (call.fn = "fallback_rules" /\ call.results # <<>>) =>
    LET own == call.results[1]
        table == rule_based_response(Chars(call.text))
    IN /\ own.intent = table.intent
       /\ own.reply = table.reply
       /\ Get(own, "escalate", FALSE) = Get(table, "escalate", FALSE)

\* C18: generate_response always returns a response with an intent and a
\* reply; for an empty or blank text it is the fixed nothing-heard response and
\* no backend call is made; when the backend fails or raises it is the rule
\* table's response for the text.
C18_GenerateNeverRaises ==
  (call.fn = "generate_response" /\ call.results # <<>>) =>
    LET res == call.results[1]
        blank == \A i \in 1..Len(Chars(call.text)) : Chars(call.text)[i] = " "
    IN /\ res # OpenAiRaised /\ res # OpenAiFailed
       /\ Has(res, "intent") /\ Has(res, "reply")
       /\ blank => /\ res = [intent |-> "none", reply |-> "I didn't hear anything."]
                   /\ call.backend_calls = 0
       /\ (~blank /\ call.backend \in {OpenAiFailed, OpenAiRaised}) =>
            res = rule_based_response(Chars(call.text))

\* the executor raised on a text asking for an agent, and the rule table answered
C18_Witness ==
  /\ call.fn = "generate_response" /\ call.results # <<>>
  /\ call.mode = "openai" /\ call.backend = OpenAiRaised
  /\ call.text = U_AgentPadded
  /\ call.results[1].intent = "connect_agent"

\* C19: transcribe returns a transcript in every mode and never an error; in
\* stub mode, or without a media reference, it returns the canned transcript
\* and calls neither a backend nor the file system.
C19_TranscribeNeverRaises ==
  (call.fn = "transcribe" /\ call.results # <<>>) =>
    /\ call.results[1] # Raise
    /\ (cfg.asr = "stub" \/ ~Truthy(call.media_url)) =>
         /\ call.results[1] = T_Canned
         /\ call.backend_calls = 0

\* the payload written when no bridge answers
NoBridgeNote == [note |-> "escalation_requested_but_no_bridge"]

\* C20: the summary and the final session patch carry an escalation payload
\* exactly when the final escalation flag is true, which is exactly when the
\* final status is escalated; with the flag true and no media bridge the
\* payload is the note that escalation was requested without a bridge, with a
\* bridge it is the bridge's answer; with the flag false the bridge is not called.
C20_PayloadIffEscalated ==
  \A r \in Runs :
    /\ tasks[r].pc \in {"finalize", "done"} =>
         /\ (tasks[r].agent_payload # NoAgent) <=> tasks[r].escalate
         /\ (tasks[r].escalate /\ ~cfg.media_bridge) => tasks[r].agent_payload = NoBridgeNote
         /\ (tasks[r].escalate /\ cfg.media_bridge) =>
              tasks[r].agent_payload = escalate_to_agent(tasks[r].call_id)
         /\ ~tasks[r].escalate => tasks[r].bridge_calls = 0
    /\ Done(r) =>
         /\ tasks[r].result_summary.agent = tasks[r].agent_payload
         /\ tasks[r].result_summary.escalated = tasks[r].escalate
         /\ (tasks[r].result_summary.agent # NoAgent) <=> tasks[r].result_summary.escalated
    /\ Finished(r) =>
         /\ Agent(tasks[r].call_id) = tasks[r].agent_payload
         /\ (Agent(tasks[r].call_id) # NoAgent) <=> tasks[r].escalate
         /\ (Status(tasks[r].call_id) = "escalated") <=> tasks[r].escalate

\* a finished run that escalated in a process without a media bridge
C20_Witness ==
  \E r \in Runs : /\ Finished(r) /\ tasks[r].escalate /\ ~cfg.media_bridge
                  /\ Agent(tasks[r].call_id) = NoBridgeNote
                  /\ tasks[r].result_summary.agent = NoBridgeNote
                  /\ Status(tasks[r].call_id) = "escalated"

\* the fields of the patch of process_call step 6
PatchKeys == {"status", "last_intent", "last_reply", "media_out", "agent", "last_update"}

\* C21: the final patch of a run leaves a session record in which every field
\* of the patch has the patch's value and every other field of the record as
\* it was before the patch (call_id, from, to, created_at, transcripts) is
\* still there with the same value, whichever store served the read and the
\* write.
C21_PatchKeepsOtherFields ==
  [][ \A r \in Runs :
        (tasks[r].pc = "finalize" /\ tasks'[r].pc = "done") =>
          LET c == tasks[r].call_id
              before == Record(c)
              after == Record(c)'
          IN /\ after.status = final_status(tasks[r].escalate)
             /\ after.last_intent = tasks[r].intent
             /\ after.last_reply = tasks[r].reply_text
             /\ after.media_out = tasks[r].media_out
             /\ after.agent = tasks[r].agent_payload
             /\ after.last_update = clock'
             /\ \A k \in (DOMAIN before) \ PatchKeys :
                  Has(after, k) /\ after[k] = before[k] ]_vars

\* C22: every session record, in Redis and in memory, has a call_id equal to
\* the key it is stored under.
C22_RecordCarriesItsKey ==
  /\ \A c \in DOMAIN redis_sessions :
       Has(redis_sessions[c], "call_id") /\ redis_sessions[c].call_id = c
  /\ \A c \in DOMAIN INMEM_SESSIONS :
       Has(INMEM_SESSIONS[c], "call_id") /\ INMEM_SESSIONS[c].call_id = c

\* C23: a step that changes a stored session record which had a last_update
\* leaves it with a last_update, and a strictly greater one.
C23_LastUpdateGrows ==
  [][ \A c \in CallIds :
        /\ (Has(redis_sessions, c) /\ Has(redis_sessions[c], "last_update")
            /\ redis_sessions'[c] # redis_sessions[c]) =>
             /\ Has(redis_sessions'[c], "last_update")
             /\ redis_sessions'[c].last_update > redis_sessions[c].last_update
        /\ (Has(INMEM_SESSIONS, c) /\ Has(INMEM_SESSIONS[c], "last_update")
            /\ INMEM_SESSIONS'[c] # INMEM_SESSIONS[c]) =>
             /\ Has(INMEM_SESSIONS'[c], "last_update")
             /\ INMEM_SESSIONS'[c].last_update > INMEM_SESSIONS[c].last_update ]_vars

\* what identifies a transcript entry in either view
Essence(e) == [timestamp |-> e.timestamp, text |-> e.text, source |-> e.source]
EssenceOf(list) == [i \in 1..Len(list) |-> Essence(list[i])]

\* the rows of the transcripts table that belong to call c, in insertion order
RECURSIVE RowsOf(_, _)
RowsOf(rows, c) ==
  IF rows = <<>> THEN <<>>
  ELSE IF rows[1].call_id = c THEN <<rows[1]>> \o RowsOf(Tail(rows), c)
  ELSE RowsOf(Tail(rows), c)

\* the Transcript Log of call c: its rows of the transcripts table, then the
\* entries of its Redis list, then those of its in-memory list
Log(c) ==
  EssenceOf(RowsOf(db_transcripts, c)) \o EssenceOf(Get(redis_transcripts, c, <<>>))
    \o EssenceOf(Get(INMEM_TRANSCRIPTS, c, <<>>))

\* the transcripts embedded in the session record of call c
Embedded(c) == EssenceOf(Get(Record(c), "transcripts", <<>>))

\* C24: once every run has returned, the transcripts embedded in the session
\* record of a call are the entries of the call's Transcript Log: the same
\* entries, or at least the same set of entries.
C24_ViewsAgree ==
  (\A r \in Runs : Done(r)) =>
    \A c \in DOMAIN latest :
      {Embedded(c)[i] : i \in 1..Len(Embedded(c))} = {Log(c)[i] : i \in 1..Len(Log(c))}

(* --------------------------- transcript search -------------------------- *)
\* api/transcripts.py line 14: the search API's own fallback dict; no code of
\* the program writes it
API_INMEM_TRANSCRIPTS == EmptyDict

\* an optional timestamp of a query: absent, or one reading of the clock
Given(ts) == ts # <<>>

\* sorted(..., reverse=True) / ORDER BY timestamp DESC
RECURSIVE sorted_desc(_)
sorted_desc(entries) ==
  IF entries = <<>> THEN <<>>
  ELSE LET i == CHOOSE j \in 1..Len(entries) :
                  \A k \in 1..Len(entries) : entries[k].timestamp <= entries[j].timestamp
       IN <<entries[i]>>
            \o sorted_desc(SubSeq(entries, 1, i - 1) \o SubSeq(entries, i + 1, Len(entries)))

RECURSIVE filtered(_, _, _, _)
\* the WHERE clauses of query_transcripts (lines 53-58)
filtered(rows, call_id, from_ts, to_ts) ==
  IF rows = <<>> THEN <<>>
  ELSE LET e == rows[1]
           keep == /\ (Truthy(call_id) => e.call_id = call_id)
                   /\ (Given(from_ts) => e.timestamp >= from_ts[1])
                   /\ (Given(to_ts) => e.timestamp <= to_ts[1])
       IN (IF keep THEN <<e>> ELSE <<>>) \o filtered(Tail(rows), call_id, from_ts, to_ts)

\* seq[:n] and seq[-n:]
first_n(seq, n) == SubSeq(seq, 1, IF n < Len(seq) THEN n ELSE Len(seq))
last_n(seq, n) == SubSeq(seq, IF n < Len(seq) THEN Len(seq) - n + 1 ELSE 1, Len(seq))

\* transcripts_store.query_transcripts
query_transcripts(call_id, from_ts, to_ts, limit) ==
  first_n(sorted_desc(filtered(db_transcripts, call_id, from_ts, to_ts)), limit)

RECURSIVE flatten(_, _)
\* all_entries of search_transcripts (lines 42-44)
flatten(d, keys) ==
  IF keys = {} THEN <<>>
  ELSE LET k == CHOOSE x \in keys : TRUE IN d[k] \o flatten(d, keys \ {k})

\* search_transcripts, the fallback (lines 36-59): with a call id the last
\* entries of its list; without one every entry in range, newest first
search_fallback(d, call_id, from_ts, to_ts, limit) ==
  IF Truthy(call_id)
  THEN last_n(Get(d, call_id, <<>>), limit)
  ELSE first_n(sorted_desc(filtered(flatten(d, DOMAIN d), None, from_ts, to_ts)), limit)

\* what query_transcripts can do when the search API calls it: return the
\* rows (TRUE) or raise (FALSE)
QueryOutcomes == IF cfg.db = "down" THEN {FALSE} ELSE {TRUE}

\* transcripts.search_transcripts
search_transcripts(call_id, from_ts, to_ts, limit, query_ok) ==
  IF query_ok THEN query_transcripts(call_id, from_ts, to_ts, limit)
  ELSE search_fallback(API_INMEM_TRANSCRIPTS, call_id, from_ts, to_ts, limit)

\* the queries asked of the search API
MaxLimit == 2
QueryCallIds == CallIds \cup {None}
QueryStamps == {<<>>} \cup {<<t>> : t \in {3, 5}}

\* every entry of the Transcript Log, of every call
Stamped(c, list) ==
  {[call_id |-> c, timestamp |-> list[i].timestamp, text |-> list[i].text,
    source |-> list[i].source] : i \in 1..Len(list)}
LogEntries == UNION {Stamped(c, Log(c)) : c \in CallIds}

\* the entries of the log that a query asks for
Asked(call_id, from_ts, to_ts) ==
  {e \in LogEntries : /\ (Truthy(call_id) => e.call_id = call_id)
                      /\ (Given(from_ts) => e.timestamp >= from_ts[1])
                      /\ (Given(to_ts) => e.timestamp <= to_ts[1])}

\* C25: a search returns the newest entries of the Transcript Log that are of
\* the asked call and inside the inclusive window: only such entries, newest
\* first, as many as the limit allows, on the database path and on the fallback.
C25_SearchReturnsWindow ==
  \A call_id \in QueryCallIds, from_ts \in QueryStamps, to_ts \in QueryStamps,
     limit \in 1..MaxLimit, query_ok \in QueryOutcomes :
    LET found == search_transcripts(call_id, from_ts, to_ts, limit, query_ok)
        asked == Asked(call_id, from_ts, to_ts)
    IN /\ \A i \in 1..Len(found) :
            [call_id |-> found[i].call_id, timestamp |-> found[i].timestamp,
             text |-> found[i].text, source |-> found[i].source] \in asked
       /\ \A i \in 1..Len(found) - 1 : found[i].timestamp >= found[i + 1].timestamp
       /\ Len(found) = (IF Cardinality(asked) < limit THEN Cardinality(asked) ELSE limit)
       /\ \A e \in asked :
            (\A i \in 1..Len(found) : found[i].timestamp # e.timestamp) =>
              \A i \in 1..Len(found) : found[i].timestamp >= e.timestamp

\* C26: a step that schedules a run schedules exactly one, not yet started,
\* leaves every other run and every transcript store as they were, and leaves
\* the session record of the call with status received; and a run writes to a
\* store only when the session of its call has been created.
C26_SessionThenOneRun ==
  [][ /\ (Len(tasks') # Len(tasks)) =>
           /\ Len(tasks') = Len(tasks) + 1
           /\ \A r \in Runs : tasks'[r] = tasks[r]
           /\ LET t == tasks'[Len(tasks')]
                  stored == IF latest'[t.call_id] = "redis"
                            THEN redis_sessions'[t.call_id]
                            ELSE INMEM_SESSIONS'[t.call_id]
              IN /\ t.pc = "transcribe"
                 /\ t.saved = <<>>
                 /\ Has(latest', t.call_id)
                 /\ stored.status = "received"
                 /\ stored.call_id = t.call_id
           /\ UNCHANGED << redis_transcripts, INMEM_TRANSCRIPTS, db_transcripts >>
      /\ \A r \in Runs :
           (tasks'[r].saved # tasks[r].saved \/ (~Done(r) /\ Done(r)')) =>
             Has(latest, tasks[r].call_id) ]_vars

\* a second call-start has scheduled its run while the run of the first is
\* under way, and the session is back at received
C26_Witness ==
  /\ Len(tasks) = 2
  /\ tasks[1].saved # <<>>
  /\ tasks[2].pc = "transcribe"
  /\ Record(tasks[2].call_id).status = "received"

\* the entries a run stored, as the Transcript Log shows them
SavedBy(r) == EssenceOf(tasks[r].saved)

\* C27: a step of a run for call c changes no other run, and no session record
\* and no transcript entry of a call other than c; and when the only run of a
\* call has returned, the call's session record and Transcript Log are what
\* that run alone computed and stored.
C27_RunsIndependent ==
  /\ [][ \A r \in Runs :
           (tasks'[r] # tasks[r]) =>
             /\ \A q \in Runs \ {r} : tasks'[q] = tasks[q]
             /\ \A d \in CallIds \ {tasks[r].call_id} :
                  /\ Has(redis_sessions', d) = Has(redis_sessions, d)
                  /\ Has(redis_sessions, d) => redis_sessions'[d] = redis_sessions[d]
                  /\ Has(INMEM_SESSIONS', d) = Has(INMEM_SESSIONS, d)
                  /\ Has(INMEM_SESSIONS, d) => INMEM_SESSIONS'[d] = INMEM_SESSIONS[d]
                  /\ Get(redis_transcripts', d, <<>>) = Get(redis_transcripts, d, <<>>)
                  /\ Get(INMEM_TRANSCRIPTS', d, <<>>) = Get(INMEM_TRANSCRIPTS, d, <<>>)
                  /\ RowsOf(db_transcripts', d) = RowsOf(db_transcripts, d) ]_vars
  /\ [](\A r \in Runs :
          Finished(r) =>
            LET c == tasks[r].call_id
            IN /\ Record(c).call_id = c
               /\ Record(c).status = final_status(tasks[r].escalate)
               /\ Record(c).last_intent = tasks[r].intent
               /\ Record(c).last_reply = tasks[r].reply_text
               /\ Record(c).media_out = tasks[r].media_out
               /\ Record(c).agent = tasks[r].agent_payload
               /\ Log(c) = SavedBy(r))

\* the runs of two different calls have both returned, the one that started
\* later first
C27_Witness ==
  /\ Len(tasks) = 2
  /\ tasks[1].call_id # tasks[2].call_id
  /\ Done(1) /\ Done(2)
  /\ Record(tasks[1].call_id).last_update > Record(tasks[2].call_id).last_update

(* ----------------- session_store.append_transcript, by step ------------- *)
\* Coroutines that call append_transcript for one call at the same time. The
\* event loop can switch between them at an await that waits for Redis: after
\* the RPUSH, after the GET and after the SET. Without a Redis client no await
\* of append_transcript suspends, and the whole call is one step.
MaxAppenders == 2
Appenders == 1..MaxAppenders
AppendCallId == "c1"

\* the session as webhooks.inbound_call stored it
ReceivedSession ==
  [ call_id |-> AppendCallId, from |-> "+15550001", to |-> None, status |-> "received",
    created_at |-> 1, last_update |-> 2, transcripts |-> <<>>, last_intent |-> None ]

\* the entry coroutine i appends
AppendEntry(i, source) ==
  [ call_id |-> AppendCallId, timestamp |-> 2 + i, text |-> T_Canned, source |-> source,
    created_at |-> 2 + i ]

AppendCalls ==
  { [fn |-> "append_transcript", procs |-> p] :
      p \in [Appenders -> [pc : {"push"}, entry : {AppendEntry(i, s) : i \in Appenders,
                                                                      s \in {"asr", "llm"}},
                           session : {NoSession}]] }

\* a database that is down sends every transcript entry to append_transcript;
\* the session of the call is where its call-start put it
InitAppend ==
  /\ cfg \in { [c EXCEPT !.db = "down"] : c \in RepeatConfigs }
  /\ clock = 2 + MaxAppenders
  /\ redis_transcripts = EmptyDict
  /\ INMEM_TRANSCRIPTS = EmptyDict
  /\ db_transcripts = <<>>
  /\ db_flows = EmptyDict
  /\ FLOW_STORE = <<>>
  /\ tasks = <<>>
  /\ \E home \in (IF cfg.redis_client THEN {"redis", "mem"} ELSE {"mem"}) :
       /\ latest = Put(EmptyDict, AppendCallId, home)
       /\ redis_sessions = IF home = "redis" THEN Put(EmptyDict, AppendCallId, ReceivedSession)
                           ELSE EmptyDict
       /\ INMEM_SESSIONS = IF home = "mem" THEN Put(EmptyDict, AppendCallId, ReceivedSession)
                           ELSE EmptyDict
  /\ \E f \in 0..MaxFaults :
       budget = [calls |-> 0, upserts |-> 0, faults |-> f, stalls |-> 0]
  /\ call \in { c \in AppendCalls :
                  \A i \in Appenders : c.procs[i].entry.timestamp = 2 + i }

AppendAt(i, pc) == call.fn = "append_transcript" /\ call.procs[i].pc = pc

\* lines 167-174: the entry goes to the Redis list, or to the in-memory list;
\* without a Redis client the session part (lines 177-185) follows at once
AppendPush(i) ==
  /\ AppendAt(i, "push")
  /\ \E push_ok \in RedisOutcomes :
       LET entry == call.procs[i].entry
           in_redis == cfg.redis_client /\ push_ok
           w == append_to_session(redis_sessions, INMEM_SESSIONS, AppendCallId, entry,
                                  TRUE, TRUE)
       IN /\ redis_transcripts' =
               IF in_redis
               THEN Put(redis_transcripts, AppendCallId,
                        Append(Get(redis_transcripts, AppendCallId, <<>>), entry))
               ELSE redis_transcripts
          /\ INMEM_TRANSCRIPTS' =
               IF in_redis THEN INMEM_TRANSCRIPTS
               ELSE Put(INMEM_TRANSCRIPTS, AppendCallId,
                        Append(Get(INMEM_TRANSCRIPTS, AppendCallId, <<>>), entry))
          /\ Spend(Failed(push_ok), 0)
          /\ IF cfg.redis_client
             THEN /\ call' = [call EXCEPT !.procs[i].pc = "get"]
                  /\ UNCHANGED << redis_sessions, INMEM_SESSIONS, latest >>
             ELSE /\ call' = [call EXCEPT !.procs[i].pc = "done"]
                  /\ redis_sessions' = w.redis
                  /\ INMEM_SESSIONS' = w.mem
                  /\ latest' = Put(latest, AppendCallId, w.home)
  /\ UNCHANGED << cfg, clock, db_transcripts, db_flows, FLOW_STORE, tasks >>

\* lines 178-184: read the session and append the entry to its transcripts; a
\* session read from _INMEM_SESSIONS is the stored object and changes in place
AppendGet(i) ==
  /\ AppendAt(i, "get")
  /\ \E get_ok \in RedisOutcomes :
       LET entry == call.procs[i].entry
           found == get_session(redis_sessions, INMEM_SESSIONS, AppendCallId, get_ok)
           session == IF found = NoSession
                      THEN [call_id |-> AppendCallId, transcripts |-> <<entry>>]
                      ELSE Put(found, "transcripts",
                               Append(Get(found, "transcripts", <<>>), entry))
       IN /\ call' = [call EXCEPT !.procs[i].pc = "set", !.procs[i].session = session]
          /\ INMEM_SESSIONS' = IF ~get_ok /\ found # NoSession
                               THEN Put(INMEM_SESSIONS, AppendCallId, session)
                               ELSE INMEM_SESSIONS
          /\ Spend(Failed(get_ok), 0)
  /\ UNCHANGED << cfg, clock, redis_sessions, redis_transcripts, INMEM_TRANSCRIPTS,
                  db_transcripts, db_flows, FLOW_STORE, tasks, latest >>

\* line 185: set_session with the session read at line 178
AppendSet(i) ==
  /\ AppendAt(i, "set")
  /\ \E set_ok \in RedisOutcomes :
       LET w == set_session(redis_sessions, INMEM_SESSIONS, AppendCallId,
                            call.procs[i].session, set_ok)
       IN /\ redis_sessions' = w.redis
          /\ INMEM_SESSIONS' = w.mem
          /\ latest' = Put(latest, AppendCallId, w.home)
          /\ call' = [call EXCEPT !.procs[i].pc = "done"]
          /\ Spend(Failed(set_ok), 0)
  /\ UNCHANGED << cfg, clock, redis_transcripts, INMEM_TRANSCRIPTS, db_transcripts,
                  db_flows, FLOW_STORE, tasks >>

NextAppend ==
  \/ \E i \in Appenders : AppendPush(i)
  \/ \E i \in Appenders : AppendGet(i)
  \/ \E i \in Appenders : AppendSet(i)

SpecAppend == InitAppend /\ [][NextAppend]_vars

\* the entries of a list, as a set
Entries(list) == {list[i] : i \in 1..Len(list)}

\* C28: when the concurrent appends for a call have all returned, the entry of
\* each is in the transcript list of the call and in the transcripts embedded in
\* its session record.
C28_BothAppendsKept ==
  (call.fn = "append_transcript" /\ \A i \in Appenders : call.procs[i].pc = "done") =>
    \A i \in Appenders :
      /\ call.procs[i].entry \in
           Entries(Get(redis_transcripts, AppendCallId, <<>>))
             \cup Entries(Get(INMEM_TRANSCRIPTS, AppendCallId, <<>>))
      /\ call.procs[i].entry \in Entries(Get(Record(AppendCallId), "transcripts", <<>>))

(* -------------------- flows.upsert_flow, by database call --------------- *)
\* Requests that upsert one flow id at the same time. save_flow awaits the
\* database at its UPDATE, its SELECT, its INSERT and its second SELECT, and the
\* event loop can switch requests at each.
MaxUpserters == 2
Upserters == 1..MaxUpserters
UpsertFlowId == "faq-v1"

UpsertCalls ==
  { [fn |-> "upsert_flow", procs |-> p, order |-> <<>>] :
      p \in [Upserters -> [pc : {"start"}, wrote : {{}},
                           flow_obj : {f \in FlowVersions : f.flow_id = UpsertFlowId}]] }

\* the flows table before the requests: empty, or with a row of the flow id
\* from an earlier upsert
InitUpserts ==
  /\ cfg \in { c \in Configs : /\ c.asr = "stub" /\ c.llm = "rules" /\ c.flow_engine
                                /\ c.tts = "none" /\ ~c.media_bridge /\ ~c.redis_client }
  /\ clock = 1
  /\ redis_sessions = EmptyDict
  /\ redis_transcripts = EmptyDict
  /\ INMEM_SESSIONS = EmptyDict
  /\ INMEM_TRANSCRIPTS = EmptyDict
  /\ db_transcripts = <<>>
  /\ tasks = <<>>
  /\ latest = EmptyDict
  /\ FLOW_STORE = <<>>
  /\ db_flows \in
       {EmptyDict} \cup
       (IF cfg.db = "up"
        THEN { Put(EmptyDict, UpsertFlowId,
                   flow_row([flow_id |-> f.flow_id, name |-> f.name,
                             description |-> f.description, nodes |-> f.nodes,
                             updated_at |-> 1])) :
                 f \in {g \in FlowInputs : g.flow_id = UpsertFlowId} }
        ELSE {})
  /\ \E f \in 0..MaxFaults :
       budget = [calls |-> 0, upserts |-> 0, faults |-> f, stalls |-> 0]
  /\ call \in UpsertCalls

UpsertAt(i, pc) == call.fn = "upsert_flow" /\ call.procs[i].pc = pc

\* what one database call of save_flow can do: return (TRUE) or raise (FALSE)
DbCallOutcomes ==
  IF cfg.db = "down" THEN {FALSE}
  ELSE IF budget.faults > 0 THEN BOOLEAN ELSE {TRUE}

\* the request returns status ok
UpsertReturns(i, wrote) ==
  [call EXCEPT !.procs[i].pc = "done", !.procs[i].wrote = @ \cup wrote,
               !.order = Append(@, i)]

\* flows.upsert_flow lines 48-52: save_flow raised, the flow goes to _FLOW_STORE
UpsertFallback(i) ==
  /\ FLOW_STORE' = flow_store_put(FLOW_STORE, call.procs[i].flow_obj)
  /\ call' = UpsertReturns(i, {"mem"})

\* flows.upsert_flow lines 39-40
UpsertStamp(i) ==
  /\ UpsertAt(i, "start")
  /\ \E now \in Readings(clock) :
       /\ clock' = now
       /\ call' = [call EXCEPT !.procs[i].pc = "update",
                               !.procs[i].flow_obj =
                                 [ flow_id |-> @.flow_id, name |-> @.name,
                                   description |-> @.description, nodes |-> @.nodes,
                                   updated_at |-> now ]]
  /\ UNCHANGED << cfg, stores, flow_stores, tasks, budget >>

\* save_flow lines 32-38: UPDATE ... WHERE flow_id
UpsertUpdate(i) ==
  /\ UpsertAt(i, "update")
  /\ \E ok \in DbCallOutcomes :
       /\ Spend(IF cfg.db = "up" THEN Failed(ok) ELSE 0, 0)
       /\ IF ok
          THEN /\ db_flows' = IF Has(db_flows, UpsertFlowId)
                              THEN Put(db_flows, UpsertFlowId, flow_row(call.procs[i].flow_obj))
                              ELSE db_flows
               /\ call' = [call EXCEPT !.procs[i].pc = "select",
                                       !.procs[i].wrote =
                                         IF Has(db_flows, UpsertFlowId) THEN {"db"} ELSE {}]
               /\ UNCHANGED FLOW_STORE
          ELSE UpsertFallback(i) /\ UNCHANGED db_flows
  /\ UNCHANGED << cfg, clock, stores, tasks >>

\* save_flow lines 41-43: SELECT, then return the row or go on to insert
UpsertSelect(i) ==
  /\ UpsertAt(i, "select")
  /\ \E ok \in DbCallOutcomes :
       /\ Spend(Failed(ok), 0)
       /\ IF ok
          THEN /\ call' = IF Has(db_flows, UpsertFlowId) THEN UpsertReturns(i, {})
                          ELSE [call EXCEPT !.procs[i].pc = "insert"]
               /\ UNCHANGED FLOW_STORE
          ELSE UpsertFallback(i)
  /\ UNCHANGED << cfg, clock, stores, db_flows, tasks >>

\* save_flow lines 44-51: INSERT; flow_id is the primary key, so the insert
\* raises when another request has inserted the row meanwhile
UpsertInsert(i) ==
  /\ UpsertAt(i, "insert")
  /\ \E ok \in DbCallOutcomes :
       /\ Spend(Failed(ok), 0)
       /\ IF ok /\ ~Has(db_flows, UpsertFlowId)
          THEN /\ db_flows' = Put(db_flows, UpsertFlowId, flow_row(call.procs[i].flow_obj))
               /\ call' = [call EXCEPT !.procs[i].pc = "reselect", !.procs[i].wrote = {"db"}]
               /\ UNCHANGED FLOW_STORE
          ELSE UpsertFallback(i) /\ UNCHANGED db_flows
  /\ UNCHANGED << cfg, clock, stores, tasks >>

\* save_flow line 52: SELECT the inserted row
UpsertReselect(i) ==
  /\ UpsertAt(i, "reselect")
  /\ \E ok \in DbCallOutcomes :
       /\ Spend(Failed(ok), 0)
       /\ IF ok THEN call' = UpsertReturns(i, {}) /\ UNCHANGED FLOW_STORE
          ELSE UpsertFallback(i)
  /\ UNCHANGED << cfg, clock, stores, db_flows, tasks >>

NextUpserts ==
  \/ \E i \in Upserters : UpsertStamp(i)
  \/ \E i \in Upserters : UpsertUpdate(i)
  \/ \E i \in Upserters : UpsertSelect(i)
  \/ \E i \in Upserters : UpsertInsert(i)
  \/ \E i \in Upserters : UpsertReselect(i)

SpecUpserts == InitUpserts /\ [][NextUpserts]_vars

\* flows.list_flows: the rows of the flows table, or the values of _FLOW_STORE
\* when the table cannot be read
api_list_flows(list_ok) ==
  IF list_ok THEN {row_flow(db_flows[k]) : k \in DOMAIN db_flows}
  ELSE {FLOW_STORE[i] : i \in 1..Len(FLOW_STORE)}

\* C29: when the concurrent upserts of a flow id have all returned ok, get and
\* list give the content of the upsert that returned last, and every upsert
\* wrote to the store that get and list read.
C29_LastUpsertWins ==
  (call.fn = "upsert_flow" /\ \A i \in Upserters : call.procs[i].pc = "done") =>
    LET last == call.procs[call.order[MaxUpserters]].flow_obj
        got == get_flow(UpsertFlowId, cfg.db = "up")
    IN /\ got # NoFlow
       /\ got.nodes = last.nodes /\ got.name = last.name
       /\ got.updated_at = last.updated_at
       /\ \E f \in api_list_flows(cfg.db = "up") :
            f.flow_id = UpsertFlowId /\ f.nodes = last.nodes /\ f.name = last.name
              /\ f.updated_at = last.updated_at
       /\ \A i \in Upserters :
            (IF cfg.db = "up" THEN "db" ELSE "mem") \in call.procs[i].wrote

\* the stages of process_call, each with the one that follows it
StageOrder ==
  { <<"transcribe", "save_asr">>, <<"save_asr", "respond">>, <<"respond", "save_llm">>,
    <<"save_llm", "flow">>, <<"flow", "synthesize">>, <<"synthesize", "escalate">>,
    <<"escalate", "finalize">>, <<"finalize", "done">> }

\* the stages that only compute
ComputingStages == {"transcribe", "respond", "flow", "synthesize", "escalate"}

\* the values a key of the session of call c has in either store
Kept(c, k) ==
  (IF Has(redis_sessions, c) /\ Has(redis_sessions[c], k) THEN {redis_sessions[c][k]} ELSE {})
    \cup (IF Has(INMEM_SESSIONS, c) /\ Has(INMEM_SESSIONS[c], k)
          THEN {INMEM_SESSIONS[c][k]} ELSE {})

\* C30: every step of a run moves it to the next stage of the order transcribe,
\* transcription entry, respond, reply entry, flow, synthesize, escalate, session
\* patch, return. The computing stages write to no store; an entry stage stores
\* one entry, of its own source, and sets no patched field of the session; the
\* patch stage writes the session with the patch and no transcript; and a run
\* that has returned takes no further step.
C30_StagesInOrderOnePatch ==
  [][ \A r \in Runs :
        (tasks'[r] # tasks[r]) =>
          LET c == tasks[r].call_id
              pc == tasks[r].pc
          IN /\ << pc, tasks'[r].pc >> \in StageOrder
             /\ (pc \in ComputingStages) => UNCHANGED stores
             /\ (pc \in {"save_asr", "save_llm"}) =>
                  /\ Len(tasks'[r].saved) = Len(tasks[r].saved) + 1
                  /\ tasks'[r].saved[Len(tasks'[r].saved)].source
                       = (IF pc = "save_asr" THEN "asr" ELSE "llm")
                  /\ \A k \in PatchKeys :
                       /\ (Has(redis_sessions', c) /\ Has(redis_sessions'[c], k)) =>
                            redis_sessions'[c][k] \in Kept(c, k)
                       /\ (Has(INMEM_SESSIONS', c) /\ Has(INMEM_SESSIONS'[c], k)) =>
                            INMEM_SESSIONS'[c][k] \in Kept(c, k)
             /\ (pc = "finalize") =>
                  /\ UNCHANGED << redis_transcripts, INMEM_TRANSCRIPTS, db_transcripts >>
                  /\ tasks'[r].saved = tasks[r].saved
                  /\ Record(c)'.last_update = clock'
                  /\ Record(c)'.status = final_status(tasks[r].escalate)
                  /\ Record(c)'.last_reply = tasks[r].reply_text ]_vars

\* a run has returned after storing the transcription entry and the reply entry,
\* in that order, and patching the session
C30_Witness ==
  \E r \in Runs :
    /\ Done(r)
    /\ Len(tasks[r].saved) = 2
    /\ tasks[r].saved[1].source = "asr" /\ tasks[r].saved[2].source = "llm"
    /\ Record(tasks[r].call_id).status = final_status(tasks[r].escalate)
    /\ Record(tasks[r].call_id).last_update = clock

\* the adapters of a pipeline run
Adapters == {"asr", "llm", "flow", "tts", "bridge"}

\* how often run r called an adapter, and whether a call of it raised
TimesInvoked(r, a) ==
  Cardinality({i \in 1..Len(tasks[r].invoked) : tasks[r].invoked[i].adapter = a})
RaisedIn(r, a) ==
  \E i \in 1..Len(tasks[r].invoked) :
    tasks[r].invoked[i].adapter = a /\ ~tasks[r].invoked[i].ok

\* C31: a run calls each of the ASR client, the LLM client, the flow engine,
\* the TTS client and the media bridge at most once, and where the call raised
\* the run holds the fallback value of that step: the stub transcript, the
\* reply and flag of the Responder, no media reference, the no-bridge note.
C31_NoRetries ==
  \A r \in Runs :
    /\ \A a \in Adapters : TimesInvoked(r, a) <= 1
    /\ RaisedIn(r, "asr") => tasks[r].asr_text = T_AsrFailed
    /\ RaisedIn(r, "flow") =>
         /\ tasks[r].reply_text = Get(tasks[r].llm_result, "reply", "")
         /\ tasks[r].escalate = Get(tasks[r].llm_result, "escalate", FALSE)
    /\ RaisedIn(r, "tts") => tasks[r].media_out = NoMedia
    /\ RaisedIn(r, "bridge") =>
         tasks[r].agent_payload = [note |-> "escalation_requested_but_no_bridge"]

\* a run has returned after its ASR call and its TTS call raised, each made once
C31_Witness ==
  \E r \in Runs :
    /\ Done(r)
    /\ RaisedIn(r, "asr") /\ RaisedIn(r, "tts")
    /\ TimesInvoked(r, "asr") = 1 /\ TimesInvoked(r, "tts") = 1
    /\ TimesInvoked(r, "llm") = 1

\* C32: when generate_response raised, the run goes on with intent unknown, the
\* fixed reply of the except branch and no escalation by the Responder; the
\* entry stored with source llm carries that reply, and without a flow the run
\* ends with that reply and without escalation.
C32_ResponderErrorAnswer ==
  \A r \in Runs :
    RaisedIn(r, "llm") =>
      /\ tasks[r].intent = "unknown"
      /\ tasks[r].llm_result = LlmErrorAnswer
      /\ Truthy(LlmErrorAnswer.reply)
      /\ ~Get(tasks[r].llm_result, "escalate", FALSE)
      /\ tasks[r].pc = "save_llm" => tasks[r].reply_text = LlmErrorAnswer.reply
      /\ \A i \in 1..Len(tasks[r].saved) :
           tasks[r].saved[i].source = "llm" => tasks[r].saved[i].text = LlmErrorAnswer.reply
      /\ Len(tasks[r].saved) = 2 => tasks[r].saved[2].source = "llm"
      /\ (Done(r) /\ tasks[r].flow = NoFlow) =>
           /\ ~tasks[r].escalate
           /\ tasks[r].result_summary.reply = LlmErrorAnswer.reply
           /\ tasks[r].result_summary.intent = "unknown"

\* a run whose LLM client raised has returned, its reply entry stored
C32_Witness ==
  \E r \in Runs :
    /\ Done(r)
    /\ RaisedIn(r, "llm")
    /\ Len(tasks[r].saved) = 2
    /\ tasks[r].saved[2].text = LlmErrorAnswer.reply

\* C33: the summary a run returns agrees with the session record its patch
\* left: the same intent, reply, media reference and agent payload, the run's
\* call id, and escalated exactly when the patched status is escalated.
C33_SummaryAgreesWithPatch ==
  [][ \A r \in Runs :
        (tasks[r].pc = "finalize" /\ tasks'[r].pc = "done") =>
          LET patched == Record(tasks[r].call_id)'
              returned == tasks'[r].result_summary
          IN /\ returned.call_id = tasks[r].call_id
             /\ returned.intent = patched.last_intent
             /\ returned.reply = patched.last_reply
             /\ returned.media_out = patched.media_out
             /\ returned.agent = patched.agent
             /\ returned.escalated <=> (patched.status = "escalated") ]_vars

\* a run has returned escalated, with a reply that a flow put in the place of
\* the Responder's
C33_Witness ==
  \E r \in Runs :
    /\ Finished(r)
    /\ tasks[r].result_summary.escalated
    /\ Record(tasks[r].call_id).status = "escalated"
    /\ tasks[r].result_summary.reply # Get(tasks[r].llm_result, "reply", "")
    /\ tasks[r].result_summary.agent # NoAgent

\* the run r is past step 4
Synthesized(r) == tasks[r].pc \in {"escalate", "finalize", "done"}

\* C34: after step 4 the run has a media reference only with a TTS client that
\* is not in stub mode, a non-empty reply and a synthesis that did not raise, and
\* the reference is then the media base without trailing slash, a slash and the
\* artifact's file name; the final patch carries what step 4 left.
C34_MediaReference ==
  \A r \in Runs :
    /\ Synthesized(r) =>
         /\ (tasks[r].media_out # NoMedia) =>
              /\ cfg.tts \notin {"none", "stub"}
              /\ Truthy(tasks[r].reply_text)
              /\ TimesInvoked(r, "tts") = 1 /\ ~RaisedIn(r, "tts")
              /\ tasks[r].media_out
                   = << "http://localhost:8000/media", "/", tasks[r].call_id, "_reply.wav" >>
         /\ (cfg.tts \in {"none", "stub"} \/ ~Truthy(tasks[r].reply_text) \/ RaisedIn(r, "tts")) =>
              tasks[r].media_out = NoMedia
    /\ Finished(r) => Record(tasks[r].call_id).media_out = tasks[r].media_out

\* a run has returned with a media reference in its session record
C34_Witness ==
  \E r \in Runs :
    /\ Finished(r)
    /\ Record(tasks[r].call_id).media_out
         = << "http://localhost:8000/media", "/", tasks[r].call_id, "_reply.wav" >>

\* the producers of transcript entries
KnownSources == {"asr", "llm"}

\* C35: every transcript entry a run stored, in the transcripts table, in a
\* Redis list or in a memory list, has a non-empty text and a source among the
\* known producers.
C35_EntriesHaveText ==
  /\ \A r \in Runs : \A i \in 1..Len(tasks[r].saved) :
       Truthy(tasks[r].saved[i].text) /\ tasks[r].saved[i].source \in KnownSources
  /\ \A e \in LogEntries : Truthy(e.text) /\ e.source \in KnownSources

\* the session stores whose record of call c carries a final patch
PatchedIn(c) ==
  (IF Has(redis_sessions, c) /\ Has(redis_sessions[c], "last_reply") THEN {"redis"} ELSE {})
    \cup (IF Has(INMEM_SESSIONS, c) /\ Has(INMEM_SESSIONS[c], "last_reply")
          THEN {"mem"} ELSE {})

\* C36: every transcript entry a run stored is in exactly one place (the
\* transcripts table, the Redis list or the memory list), and when the only run
\* of a call has returned, its patch is in exactly one session store.
C36_OnePlaceEach ==
  \A r \in Runs :
    /\ \A i \in 1..Len(tasks[r].saved) : Cardinality(tasks[r].saved[i].places) = 1
    /\ Finished(r) => Cardinality(PatchedIn(tasks[r].call_id)) = 1

\* sessions.get_session on the stores R and M when Redis answers; NoSession
\* stands for the 404 answer
read_session(R, M, c) == get_session(R, M, c, TRUE)

\* C37: after the step that accepts a call-start for c, the session read API
\* returns a record of c with status received; after the step that writes the
\* final patch of a run for c, it returns a record of c with the patched status,
\* reply and last_update.
C37_WritesAreRead ==
  [][ /\ (Len(tasks') # Len(tasks)) =>
           LET c == tasks'[Len(tasks')].call_id
               read == read_session(redis_sessions', INMEM_SESSIONS', c)
           IN /\ read # NoSession
              /\ Get(read, "call_id", None) = c
              /\ Get(read, "status", None) = "received"
      /\ \A r \in Runs :
           (tasks[r].pc = "finalize" /\ tasks'[r].pc = "done") =>
             LET read == read_session(redis_sessions', INMEM_SESSIONS', tasks[r].call_id)
             IN /\ read # NoSession
                /\ Get(read, "status", None) = final_status(tasks[r].escalate)
                /\ Get(read, "last_reply", "<absent>") = tasks[r].reply_text
                /\ Get(read, "last_update", 0) = clock' ]_vars


\* a limit no smaller than the number of entries stored anywhere for call c
SufficientLimit(c) ==
  Len(db_transcripts) + Len(Get(redis_transcripts, c, <<>>))
    + Len(Get(INMEM_TRANSCRIPTS, c, <<>>)) + 1

\* C38: every transcript entry a run has appended for its call is among the
\* entries a search for that call returns when the limit is sufficient and no
\* window is given, whether the search is served by the table or by the fallback.
C38_AppendedIsFound ==
  \A r \in Runs : \A i \in 1..Len(tasks[r].saved) : \A query_ok \in QueryOutcomes :
    LET c == tasks[r].call_id
        e == tasks[r].saved[i]
        found == search_transcripts(c, <<>>, <<>>, SufficientLimit(c), query_ok)
    IN \E j \in 1..Len(found) :
         /\ found[j].timestamp = e.timestamp
         /\ found[j].text = e.text
         /\ found[j].source = e.source


\* C39: a header that is present and differs from the configured secret is
\* rejected, and a call-start step made with such a header leaves the session
\* stores, the transcript stores and the scheduled runs as they were.
C39_RejectedChangesNothing ==
  [][ \A x \in SecretHeaders : (x # None /\ x # WEBHOOK_SECRET) =>
        /\ secret_rejected(x)
        /\ \A call_id \in CallIds, media_url \in MediaUrls, set_ok \in BOOLEAN :
             inbound_call(call_id, media_url, x, set_ok) =>
               UNCHANGED << redis_sessions, INMEM_SESSIONS, redis_transcripts,
                            INMEM_TRANSCRIPTS, db_transcripts, latest, tasks >> ]_vars

\* a call-start has been rejected: the request is spent, no run is scheduled
\* and no session is stored
C39_Witness ==
  /\ budget.calls < MaxCalls
  /\ tasks = <<>>
  /\ \A c \in CallIds : Visible(c) = NoSession /\ ~Has(INMEM_SESSIONS, c)


\* flow upserts in one behaviour of SpecConsult
MaxConsultUpserts == 2

\* one call-start after up to two flow upserts, in a deployment with the flow
\* engine and no Redis client, with the database up or down; no call of a store
\* fails transiently
InitConsult ==
  /\ cfg \in { c \in Configs : /\ c.asr = "stub" /\ c.llm = "rules" /\ c.flow_engine
                                /\ c.tts = "none" /\ ~c.media_bridge /\ ~c.redis_client }
  /\ NoStores
  /\ budget = [calls |-> MaxCalls, upserts |-> MaxConsultUpserts, faults |-> 0,
               stalls |-> 0]

SpecConsult == InitConsult /\ [][Next]_vars

\* the stored flows no other stored flow was upserted after
MostRecentFlows ==
  {f \in StoredFlows : \A g \in StoredFlows : g.updated_at <= f.updated_at}

\* the text of the entries run r stored for its Responder's reply
LlmEntryTexts(r) ==
  {tasks[r].saved[i].text : i \in {j \in 1..Len(tasks[r].saved) :
                                     tasks[r].saved[j].source = "llm"}}

\* C40: a flow step made while flows are stored consults a most recently
\* upserted one; a flow step made while no flow is stored leaves the reply and
\* takes the Responder's escalation flag, and when the only run of a call has
\* returned with no flow stored, the last reply of the session is the text of
\* the run's llm entry.
C40_LatestFlowOrNone ==
  /\ [][ \A r \in Runs :
           (cfg.flow_engine /\ tasks[r].pc = "flow" /\ tasks'[r].pc # "flow") =>
             IF StoredFlows # {}
             THEN tasks'[r].flow \in MostRecentFlows
             ELSE /\ tasks'[r].flow = NoFlow
                  /\ tasks'[r].reply_text = tasks[r].reply_text
                  /\ tasks'[r].escalate = Get(tasks[r].llm_result, "escalate", FALSE) ]_vars
  /\ [](\A r \in Runs :
          (Finished(r) /\ StoredFlows = {}) =>
            LlmEntryTexts(r) = {LastReply(tasks[r].call_id)})

====
